---- MODULE Spec2Model ----
(***************************************************************************)
(* Model of the runner simulation engine of retro-vault (startGame in      *)
(* src/src/pages/profile.ts): run state machine, fixed-timestep clock,     *)
(* actor physics, collision, obstacle store and spawn director; and of the *)
(* hash router of src/src/main.ts that mounts it.                          *)
(*                                                                         *)
(* All quantities of the engine are rationals with small denominators, so  *)
(* the model is exact integer arithmetic in scaled units:                  *)
(*   time          1/600 s      (FIXED_DT = 1/120 s = 5 units)             *)
(*   worldSpeed    1/15 px/s    (8 * FIXED_DT = 1/15 px/s per tick)        *)
(*   x, w          1/9000 px    (worldSpeed * FIXED_DT = 5 units per unit  *)
(*                               of worldSpeed)                            *)
(*   y, h          1/9600 px    (vy * FIXED_DT = 1 unit per unit of vy)    *)
(*   vy            1/80 px/s                                               *)
(*   score         1/36000      (FIXED_DT * worldSpeed / 20)               *)
(*   hardness      1/1000                                                  *)
(* Math.random() is a nondeterministic choice among a few values.          *)
(***************************************************************************)
EXTENDS Integers, Sequences, FiniteSets, TLC

VARIABLES
  state,               \* GameState: "READY" | "RUNNING" | "GAMEOVER"
  viewW,               \* width of the camera, set by resize()
  worldSpeed, score, best,
  bestStored,          \* localStorage item BEST_KEY as a number, 0 when absent
  distSinceSpawn, nextSpawnDist,
  obs,                 \* Ob[]: sequence of obstacle records, spawn order
  lastKind, lastFlyLevel, lastSpawnHardness, lastSpawnWasHard,
  patternQueue,        \* [null |-> BOOLEAN, steps |-> sequence of PatternStep]
  patternCooldownDist, recentPatterns,
  guardAfterPit, guardAfterLowFlyer,
  jumpDown, downDown, jumpBuffer, coyote, jumpHold,
  showHitboxes, pitFall,
  dino,                \* [x, y, w, h, vy, onGround, ducking]
  acc, draining,       \* frame(): accumulator, and "inside the drain loop"
  ev,                  \* history: the last event that was handled
  cause,               \* history: why the last tick called gameOver ("none" if not)
  inputs,              \* history: number of input events delivered so far
  pressGrounded,       \* history: the last jump press met a grounded actor
  released,            \* history: a jump release followed that press
  cleanup,             \* main.ts: the registered cleanup, 0 for undefined, else
                       \* the index in pages of the render that returned it
  pages                \* history: the renders of route(), in order, each with
                       \* what it returned and the calls of its cleanup

simVars == <<state, viewW, worldSpeed, score, best, bestStored, distSinceSpawn, nextSpawnDist, obs,
             lastKind, lastFlyLevel, lastSpawnHardness, lastSpawnWasHard,
             patternQueue, patternCooldownDist, recentPatterns,
             guardAfterPit, guardAfterLowFlyer, jumpDown, downDown, jumpBuffer,
             coyote, jumpHold,
             showHitboxes, pitFall, dino>>
routerVars == <<cleanup, pages>>
vars == <<simVars, routerVars, acc, draining, ev, cause, inputs, pressGrounded, released>>

----------------------------------------------------------------------------
(* Units *)
XU == 9000
YU == 9600
VU == 80
TU == 600
WU == 15
SU == 36000
HU == 1000

(* Bounds of the model *)
MaxInputs == 3          \* input events delivered in one behaviour
MaxSpeedTicks == 460    \* ticks of RUNNING a run may last (worldSpeed cap)

(* Program constants, profile.ts 204-283 *)
BASE_VIEW_H == 360
MIN_VIEW_W == 640
GRAVITY == 1800
JUMP_VELOCITY == -640
JUMP_CUT_VELOCITY == -220
COYOTE_TIME == 60            \* 0.10 s
JUMP_BUFFER_TIME == 72       \* 0.12 s
MAX_JUMP_HOLD == 96          \* 0.16 s
HOLD_GRAVITY_MULT == 55      \* 0.55, in hundredths
FAST_FALL_MULT == 185        \* 1.85, in hundredths
HIT_PAD == 4
FLYER_PAD == 6
STAND_W == 32
STAND_H == 32
DUCK_W == 32
DUCK_H == 24
FIXED_DT == 5                \* 1/120 s
MAX_ACCUM == 150             \* 0.25 s
MAX_FRAME_DT == 30           \* 0.05 s
PIT_MIN_W == 90
PIT_MAX_W_HARDCAP == 240
PIT_VISUAL_DEPTH == 84
PIT_SPAWN_SCORE_GATE == 120
PIT_FALL_LOCK_DEPTH == 8
PATTERN_SCORE_GATE == 260
SAFE_AFTER_PIT_DIST == 240
SAFE_AFTER_LOW_FLYER_DIST == 220
GROUND_Y == 272
BASE_SPEED == 260
DINO_X == 90
READY_SPAWN_DIST == 360
FRESH_SPAWN_DIST == 320
FALL_MARGIN == 120
CULL_MARGIN == 80
SPAWN_MARGIN == 40

viewH == BASE_VIEW_H * YU
groundY == GROUND_Y * YU

Min(a, b) == IF a < b THEN a ELSE b
Max(a, b) == IF a > b THEN a ELSE b
clamp(n, a, b) == Max(a, Min(b, n))

NullQueue == [null |-> TRUE, steps |-> <<>>]

(* The engine's mutable closure variables, as one record. *)
Cur ==
  [state |-> state, viewW |-> viewW,
   worldSpeed |-> worldSpeed, score |-> score, best |-> best,
   bestStored |-> bestStored,
   distSinceSpawn |-> distSinceSpawn, nextSpawnDist |-> nextSpawnDist, obs |-> obs,
   lastKind |-> lastKind, lastFlyLevel |-> lastFlyLevel,
   lastSpawnHardness |-> lastSpawnHardness, lastSpawnWasHard |-> lastSpawnWasHard,
   patternQueue |-> patternQueue, patternCooldownDist |-> patternCooldownDist,
   recentPatterns |-> recentPatterns,
   guardAfterPit |-> guardAfterPit, guardAfterLowFlyer |-> guardAfterLowFlyer,
   jumpDown |-> jumpDown, downDown |-> downDown, jumpBuffer |-> jumpBuffer,
   coyote |-> coyote, jumpHold |-> jumpHold, showHitboxes |-> showHitboxes,
   pitFall |-> pitFall, dino |-> dino, cause |-> cause]

Commit(s) ==
  /\ state' = s.state
  /\ viewW' = s.viewW
  /\ worldSpeed' = s.worldSpeed
  /\ score' = s.score
  /\ best' = s.best
  /\ bestStored' = s.bestStored
  /\ distSinceSpawn' = s.distSinceSpawn
  /\ nextSpawnDist' = s.nextSpawnDist
  /\ obs' = s.obs
  /\ lastKind' = s.lastKind
  /\ lastFlyLevel' = s.lastFlyLevel
  /\ lastSpawnHardness' = s.lastSpawnHardness
  /\ lastSpawnWasHard' = s.lastSpawnWasHard
  /\ patternQueue' = s.patternQueue
  /\ patternCooldownDist' = s.patternCooldownDist
  /\ recentPatterns' = s.recentPatterns
  /\ guardAfterPit' = s.guardAfterPit
  /\ guardAfterLowFlyer' = s.guardAfterLowFlyer
  /\ jumpDown' = s.jumpDown
  /\ downDown' = s.downDown
  /\ jumpBuffer' = s.jumpBuffer
  /\ coyote' = s.coyote
  /\ jumpHold' = s.jumpHold
  /\ showHitboxes' = s.showHitboxes
  /\ pitFall' = s.pitFall
  /\ dino' = s.dino
  /\ cause' = s.cause
  /\ UNCHANGED routerVars

----------------------------------------------------------------------------
(* Reset, restart, game over: profile.ts 485-602 *)

StandingDino ==
  [x |-> DINO_X * XU, y |-> groundY - STAND_H * YU, w |-> STAND_W * XU,
   h |-> STAND_H * YU, vy |-> 0, onGround |-> TRUE, ducking |-> FALSE]

(* resetToReady that leaves the jump buffer as it finds it *)
resetKeepingBuffer(s) ==
  [s EXCEPT !.state = "READY", !.worldSpeed = BASE_SPEED * WU, !.score = 0,
            !.dino = StandingDino, !.obs = <<>>, !.distSinceSpawn = 0,
            !.nextSpawnDist = READY_SPAWN_DIST * XU, !.lastKind = "CACTUS",
            !.lastFlyLevel = 1, !.lastSpawnHardness = 550, !.lastSpawnWasHard = FALSE,
            !.patternQueue = NullQueue, !.patternCooldownDist = 0,
            !.recentPatterns = <<>>, !.guardAfterPit = 0, !.guardAfterLowFlyer = 0,
            !.coyote = COYOTE_TIME, !.jumpHold = 0, !.pitFall = FALSE]

resetToReady(s) ==
  [s EXCEPT !.state = "READY",
            !.worldSpeed = BASE_SPEED * WU,
            !.score = 0,
            !.dino = StandingDino,
            !.obs = <<>>,
            !.distSinceSpawn = 0,
            !.nextSpawnDist = READY_SPAWN_DIST * XU,
            !.lastKind = "CACTUS",
            !.lastFlyLevel = 1,
            !.lastSpawnHardness = 550,
            !.lastSpawnWasHard = FALSE,
            !.patternQueue = NullQueue,
            !.patternCooldownDist = 0,
            !.recentPatterns = <<>>,
            !.guardAfterPit = 0,
            !.guardAfterLowFlyer = 0,
            !.jumpBuffer = 0,
            !.coyote = COYOTE_TIME,
            !.jumpHold = 0,
            !.pitFall = FALSE]

(* a fresh run that takes every value from resetToReady *)
startRunLikeReset(s) == [resetToReady(s) EXCEPT !.state = "RUNNING"]

startRunFresh(s) ==
  [s EXCEPT !.state = "RUNNING",
            !.worldSpeed = BASE_SPEED * WU,
            !.score = 0,
            !.dino = StandingDino,
            !.obs = <<>>,
            !.distSinceSpawn = 0,
            !.nextSpawnDist = FRESH_SPAWN_DIST * XU,
            !.lastKind = "CACTUS",
            !.lastFlyLevel = 1,
            !.lastSpawnHardness = 550,
            !.lastSpawnWasHard = FALSE,
            !.patternQueue = NullQueue,
            !.patternCooldownDist = 0,
            !.recentPatterns = <<>>,
            !.guardAfterPit = 0,
            !.guardAfterLowFlyer = 0,
            !.coyote = COYOTE_TIME,
            !.jumpHold = 0,
            !.pitFall = FALSE]

(* a restart that goes to the idle state *)
restartToIdle(s) == resetToReady(s)

restartRun(s) == startRunFresh(s)

floorScore(sc) == sc \div SU

(* a game over that drops to the idle state *)
gameOverToIdle(s) == [s EXCEPT !.state = "READY"]

(* a game over that records the score whether or not it beats the best *)
gameOverAlwaysRecords(s) ==
  [s EXCEPT !.state = "GAMEOVER", !.best = floorScore(s.score),
            !.bestStored = floorScore(s.score)]

gameOver(s) ==
  IF floorScore(s.score) > s.best
  THEN [s EXCEPT !.state = "GAMEOVER", !.best = floorScore(s.score),
                 !.bestStored = floorScore(s.score)]
  ELSE [s EXCEPT !.state = "GAMEOVER"]

----------------------------------------------------------------------------
(* Jump and duck: profile.ts 604-648 *)

queueJump(s) == [s EXCEPT !.jumpBuffer = JUMP_BUFFER_TIME]

(* a cut that is applied whatever the velocity *)
cutJumpAlways(s) == [s EXCEPT !.dino.vy = JUMP_CUT_VELOCITY * VU]

cutJumpIfNeeded(s) ==
  IF s.dino.vy < JUMP_CUT_VELOCITY * VU
  THEN [s EXCEPT !.dino.vy = JUMP_CUT_VELOCITY * VU]
  ELSE s

(* a duck pose that changes the size and leaves y as it is *)
applyDuckVisualKeepsY(s, duck) ==
  IF ~s.dino.onGround THEN [s EXCEPT !.dino.ducking = FALSE]
  ELSE IF duck /\ ~s.dino.ducking
    THEN [s EXCEPT !.dino.ducking = TRUE, !.dino.w = DUCK_W * XU, !.dino.h = DUCK_H * YU]
  ELSE IF ~duck /\ s.dino.ducking
    THEN [s EXCEPT !.dino.ducking = FALSE, !.dino.w = STAND_W * XU, !.dino.h = STAND_H * YU]
  ELSE s

(* a duck pose that is taken in the air as on the ground *)
applyDuckVisualInAir(s, duck) ==
  IF duck /\ ~s.dino.ducking
    THEN [s EXCEPT !.dino.ducking = TRUE, !.dino.w = DUCK_W * XU,
                   !.dino.h = DUCK_H * YU, !.dino.y = groundY - DUCK_H * YU]
  ELSE IF ~duck /\ s.dino.ducking
    THEN [s EXCEPT !.dino.ducking = FALSE, !.dino.w = STAND_W * XU,
                   !.dino.h = STAND_H * YU, !.dino.y = groundY - STAND_H * YU]
  ELSE s

applyDuckVisual(s, duck) ==
  IF ~s.dino.onGround THEN [s EXCEPT !.dino.ducking = FALSE]
  ELSE IF duck /\ ~s.dino.ducking
    THEN [s EXCEPT !.dino.ducking = TRUE, !.dino.w = DUCK_W * XU,
                   !.dino.h = DUCK_H * YU, !.dino.y = groundY - DUCK_H * YU]
  ELSE IF ~duck /\ s.dino.ducking
    THEN [s EXCEPT !.dino.ducking = FALSE, !.dino.w = STAND_W * XU,
                   !.dino.h = STAND_H * YU, !.dino.y = groundY - STAND_H * YU]
  ELSE s

(* a jump that leaves the coyote time as it finds it *)
performJumpKeepsCoyote(s) ==
  [s EXCEPT !.dino.ducking = FALSE, !.dino.w = STAND_W * XU, !.dino.h = STAND_H * YU,
            !.dino.y = groundY - STAND_H * YU,
            !.dino.vy = JUMP_VELOCITY * VU, !.dino.onGround = FALSE,
            !.jumpHold = 0, !.jumpBuffer = 0]

performJump(s) ==
  [s EXCEPT !.dino.ducking = FALSE, !.dino.w = STAND_W * XU, !.dino.h = STAND_H * YU,
            !.dino.y = groundY - STAND_H * YU,
            !.dino.vy = JUMP_VELOCITY * VU, !.dino.onGround = FALSE,
            !.jumpHold = 0, !.coyote = 0, !.jumpBuffer = 0]

(* a jump consumed in the idle state whether or not one is buffered *)
tryConsumeJumpUnbuffered(s) ==
  IF s.state = "READY" THEN performJump(startRunFresh(s))
  ELSE IF s.jumpBuffer <= 0 \/ s.state # "RUNNING" THEN s
  ELSE IF s.dino.onGround \/ s.coyote > 0 THEN performJump(s) ELSE s

(* a jump that needs neither the ground nor coyote time *)
tryConsumeJumpAnywhere(s) ==
  IF s.jumpBuffer <= 0 THEN s
  ELSE LET t == IF s.state = "READY" THEN startRunFresh(s) ELSE s
       IN  IF t.state # "RUNNING" THEN t ELSE performJump(t)

tryConsumeJump(s) ==
  IF s.jumpBuffer <= 0 THEN s
  ELSE LET t == IF s.state = "READY" THEN startRunFresh(s) ELSE s
       IN  IF t.state # "RUNNING" THEN t
           ELSE IF t.dino.onGround \/ t.coyote > 0 THEN performJump(t) ELSE t

----------------------------------------------------------------------------
(* Hitboxes and pits: profile.ts 650-690 *)

dinoHitbox(d) ==
  [x |-> d.x + HIT_PAD * XU, y |-> d.y + HIT_PAD * YU,
   w |-> d.w - 2 * HIT_PAD * XU, h |-> d.h - 2 * HIT_PAD * YU]

obHitbox(o) ==
  LET pad == IF o.kind = "FLYER" THEN FLYER_PAD ELSE HIT_PAD
  IN  [x |-> o.x + pad * XU, y |-> o.y + pad * YU,
       w |-> o.w - 2 * pad * XU, h |-> o.h - 2 * pad * YU]

aabb(a, b) ==
  ~(a.x + a.w < b.x \/ a.x > b.x + b.w \/ a.y + a.h < b.y \/ a.y > b.y + b.h)

(* footA = x + 0.28 w, footB = x + 0.78 w *)
isOverPit(d, os) ==
  LET footA == d.x + (d.w * 28) \div 100
      footB == d.x + (d.w * 78) \div 100
  IN  \E i \in 1..Len(os) :
        /\ os[i].kind = "PIT"
        /\ footB > os[i].x + 4 * XU
        /\ footA < os[i].x + os[i].w - 4 * XU

----------------------------------------------------------------------------
(* Utils: profile.ts 353-411 *)

(* floor(k * n / d) without leaving 32 bits (k < 2^31, (d - 1) * n < 2^31) *)
MulDiv(k, n, d) == (k \div d) * n + ((k % d) * n) \div d

(* Math.random() returns u / RD for an integer 0 <= u < RD. A behaviour draws
   each value from a finite set U of such u; every operator below that calls
   Math.random() takes the drawn values as arguments. *)
RD == 1000
(* u / RD < num / den *)
lt(u, num, den) == u * den < num * RD
(* rand(a, b) = a + Math.random() * (b - a) *)
rand(u, a, b) == a + MulDiv(b - a, u, RD)
(* The weighted draw used by pickGroundVariant and pickPattern:
   r = Math.random() * total; the first entry at which r - (w1 + .. + wi) <= 0.
   ws is the sequence of weights; the result is an index, 0 if none. *)
RECURSIVE sumTo(_, _)
sumTo(ws, i) == IF i = 0 THEN 0 ELSE ws[i] + sumTo(ws, i - 1)
weightedDraw(u, ws) ==
  LET total == sumTo(ws, Len(ws))
      hit == {i \in 1..Len(ws) : sumTo(ws, i) * RD >= u * total}
  IN  IF hit = {} THEN 0 ELSE CHOOSE i \in hit : \A j \in hit : i <= j

(* worldSpeed clamped to the range on which speedFactor is not constant:
   260 <= worldSpeed <= 2.35 * 260 = 611 *)
SPEEDFACTOR_CAP == 9165
sfSpeed(s) == clamp(s.worldSpeed, BASE_SPEED * WU, SPEEDFACTOR_CAP)
(* scaledGap(base) = base * speedFactor(), speedFactor = clamp(worldSpeed/260, 1, 2.35) *)
scaledGap(s, base) == MulDiv(base, sfSpeed(s), BASE_SPEED * WU)

(* difficulty01 = clamp((worldSpeed - 260) / 700, 0, 1), in units of 1/10500 *)
DU == 10500
(* a difficulty that keeps growing with the speed *)
difficultyUnclamped(s) == Max(0, s.worldSpeed - BASE_SPEED * WU)

difficulty01(s) == clamp(s.worldSpeed - BASE_SPEED * WU, 0, DU)

STAGE_MID_SCORE == 600
STAGE_LATE_SCORE == 1600
(* stages that come in another order *)
stageLateFirst(s) ==
  IF s.score < STAGE_MID_SCORE * SU THEN "EARLY"
  ELSE IF s.score < STAGE_LATE_SCORE * SU THEN "LATE" ELSE "MID"

stage(s) ==
  IF s.score < STAGE_MID_SCORE * SU THEN "EARLY"
  ELSE IF s.score < STAGE_LATE_SCORE * SU THEN "MID" ELSE "LATE"

(* 32-bit words as <<high 16 bits, low 16 bits>> *)
W16 == 65536
RECURSIVE xorN(_, _, _)
xorN(a, b, n) ==
  IF n = 0 THEN 0 ELSE ((a + b) % 2) + 2 * xorN(a \div 2, b \div 2, n - 1)
RECURSIVE orN(_, _, _)
orN(a, b, n) ==
  IF n = 0 THEN 0
  ELSE (IF a % 2 = 1 \/ b % 2 = 1 THEN 1 ELSE 0) + 2 * orN(a \div 2, b \div 2, n - 1)
RECURSIVE pow2(_)
pow2(k) == IF k = 0 THEN 1 ELSE 2 * pow2(k - 1)
xor32(a, b) == <<xorN(a[1], b[1], 16), xorN(a[2], b[2], 16)>>
orLow32(a, c) == <<a[1], orN(a[2], c, 16)>>               \* c | a, for c < 2^16
shr32(a, k) ==                                             \* a >>> k, for 0 < k < 16
  <<a[1] \div pow2(k), (a[2] \div pow2(k)) + (a[1] % pow2(k)) * pow2(16 - k)>>
add32(a, b) ==
  LET lo == a[2] + b[2]
  IN  <<(a[1] + b[1] + lo \div W16) % W16, lo % W16>>
imul32(a, b) ==                                            \* Math.imul, modulo 2^32
  LET a0 == a[2] % 256   a1 == a[2] \div 256   a2 == a[1] % 256   a3 == a[1] \div 256
      b0 == b[2] % 256   b1 == b[2] \div 256   b2 == b[1] % 256   b3 == b[1] \div 256
      c0 == a0 * b0
      c1 == a0 * b1 + a1 * b0
      c2 == a0 * b2 + a1 * b1 + a2 * b0
      c3 == a0 * b3 + a1 * b2 + a2 * b1 + a3 * b0
      lo == c0 + (c1 % 256) * 256
  IN  <<(lo \div W16 + c1 \div 256 + c2 + (c3 % 256) * 256) % W16, lo % W16>>

(* One call of the generator mulberry32(seed) returns: the new t and the
   value r() / 2^32 truncated to 16 bits (units of 1/65536). *)
MULBERRY_INC_HI == 27947     \* 0x6d2b
MULBERRY_INC_LO == 31221     \* 0x79f5
mulberryStep(t) ==
  LET mix3(r) == xor32(r, shr32(r, 14))
      mix2(r) == xor32(r, add32(r, imul32(xor32(r, shr32(r, 7)), orLow32(r, 61))))
      mix1(t1) ==
        [t |-> t1,
         r |-> mix3(mix2(imul32(xor32(t1, shr32(t1, 15)), orLow32(t1, 1))))[1]]
  IN  mix1(add32(t, <<MULBERRY_INC_HI, MULBERRY_INC_LO>>))
(* the first two values of mulberry32(seed), seed < 2^31 *)
mulberry32(seed) ==
  LET both(c1) == <<c1.r, mulberryStep(c1.t).r>>
  IN  both(mulberryStep(<<seed \div W16, seed % W16>>))

(* seedInt() = (Math.random() * 0x7fffffff) | 0 *)
INT31_MAX == 2147483647
seedInt(u) == MulDiv(INT31_MAX, u, RD)

----------------------------------------------------------------------------
(* Spawn helpers: profile.ts 692-945 *)

GroundVariants ==
  <<"CACTUS_SINGLE", "CACTUS_TALL", "CACTUS_WIDE", "CACTUS_CLUSTER_2",
    "CACTUS_CLUSTER_3", "ROCK_LOW", "ROCK_WIDE", "ROCK_STACK", "STUMP">>

byStage(st, early, mid, late) ==
  IF st = "EARLY" THEN early ELSE IF st = "MID" THEN mid ELSE late

(* in x units; (worldSpeed - 260) * 0.08 px = 48 units per unit of worldSpeed *)
maxGroundWidthCap(s) ==
  LET st == stage(s)
      base == byStage(st, 115, 155, 190) * XU
      extra == clamp((s.worldSpeed - BASE_SPEED * WU) * 48, 0,
                     (IF st = "LATE" THEN 70 ELSE 55) * XU)
      cap1 == base + extra
      cap2 == IF s.guardAfterPit > 0 THEN cap1 - 35 * XU ELSE cap1
      cap3 == IF s.guardAfterLowFlyer > 0 /\ st # "LATE" THEN cap2 - 20 * XU ELSE cap2
  IN  clamp(cap3, 90 * XU, 250 * XU)

maxGroundHeightCap(s) == byStage(stage(s), 72, 82, 90) * YU

variantBonus(v) ==
  CASE v = "CACTUS_TALL" -> 100
    [] v = "CACTUS_WIDE" -> 180
    [] v = "CACTUS_CLUSTER_2" -> 280
    [] v = "CACTUS_CLUSTER_3" -> 380
    [] v = "ROCK_WIDE" -> 160
    [] v = "ROCK_STACK" -> 220
    [] v = "STUMP" -> 140
    [] OTHER -> 0

(* hardness in thousandths; w / wCap and h / hCap to three decimals *)
computeGroundHardness(s, w, h, v) ==
  LET wN == clamp(((w \div 9) * 1000) \div (maxGroundWidthCap(s) \div 9), 0, 1250)
      hN == clamp(((h \div 10) * 1000) \div (maxGroundHeightCap(s) \div 10), 0, 1250)
      hard == 350 + (wN * 55) \div 100 + (hN * 35) \div 100 + variantBonus(v)
  IN  clamp(hard, 300, 1600)

(* The weights of pickGroundVariant, in units of 1/10000; tallBias in hundredths. *)
groundWeights(s, tallBias) ==
  LET st == stage(s)
      d == difficulty01(s)
      afterPit == s.guardAfterPit > 0 \/ s.lastKind = "PIT"
      afterLowFly == s.guardAfterLowFlyer > 0
      tb == clamp(tallBias, 0, 100)
      boost == 1000 + MulDiv(d, IF st = "LATE" THEN 550 ELSE 350, DU)   \* thousandths
      m(w, num, den) == MulDiv(w, num, den)
      pitF(w, pct) == IF afterPit THEN m(w, pct, 100) ELSE w
      lowF(w, pct) == IF afterLowFly /\ st # "LATE" THEN m(w, pct, 100) ELSE w
      wSingle == byStage(st, 46000, 32000, 24000)
      wTall == m(byStage(st, 22000, 20000, 16000), 8500 + tb * 55, 10000)
      wWide == lowF(pitF(m(byStage(st, 5000, 16000, 22000), boost, 1000), 35), 70)
      wStump == byStage(st, 9000, 10000, 11000)
      wCl2 == lowF(pitF(m(m(byStage(st, 2500, 11000, 18000), 8500 + tb * 45, 10000),
                          boost, 1000), 35), 75)
      wCl3 == lowF(pitF(m(m(byStage(st, 0, 5500, 13500), 9000 + tb * 50, 10000),
                          boost, 1000), 25), 60)
      wRockLow == byStage(st, 14000, 12000, 9000)
      wRockWide == lowF(pitF(m(m(byStage(st, 3000, 9000, 13000), boost, 1000), 9, 10),
                             40), 75)
      wRockStack == pitF(m(m(byStage(st, 1000, 5500, 12000), boost, 1000), 9, 10), 35)
  IN  <<wSingle, wTall, wWide, wCl2, wCl3, wRockLow, wRockWide, wRockStack, wStump>>

(* pool = the variants of weight > 0.001, in catalog order; weighted draw *)
pickGroundVariant(s, tallBias, u) ==
  LET drawn(pool, k) == IF k = 0 THEN "CACTUS_SINGLE" ELSE GroundVariants[pool[k]]
      from(w, pool) ==
        drawn(pool, weightedDraw(u, [j \in 1..Len(pool) |-> w[pool[j]]]))
      pick(w) == from(w, SelectSeq([i \in 1..9 |-> i], LAMBDA i : w[i] > 10))
  IN  pick(groundWeights(s, tallBias))

(* rr(a, b) = a + r() * (b - a), r() in units of 1/65536; a, b in model units *)
rr(r, a, b) == a + ((r * ((b - a) \div 64)) \div 1024)

makeGroundDims(s, v, seed) ==
  LET early(st, a, b) == IF st = "EARLY" THEN a ELSE b
      mid(st, a, b) == IF st = "MID" THEN a ELSE b
      \* LATE: w *= 1 + d * 0.08, h *= 1 + d * 0.06
      scaled(st, d, n, pct) ==
        IF st = "LATE" THEN n + MulDiv(n \div 100, d * pct, DU) ELSE n
      capped(st, d, w, h, wCap, hCap) ==
        [w |-> clamp(scaled(st, d, w, 8), 14 * XU, wCap),
         h |-> clamp(scaled(st, d, h, 6), 14 * YU, hCap)]
      dims(st, d, r, wCap, hCap) ==
        LET X(a, b) == rr(r[1], a * XU, b * XU)
            Y(a, b) == rr(r[2], a * YU, b * YU)
        IN  CASE v = "CACTUS_SINGLE" ->
                   capped(st, d, X(22, 34), Y(34, early(st, 56, 62)), wCap, hCap)
              [] v = "CACTUS_TALL" ->
                   capped(st, d, X(14, 22), rr(r[2], 58 * YU, hCap), wCap, hCap)
              [] v = "CACTUS_WIDE" ->
                   capped(st, d, X(40, early(st, 62, 78)), Y(30, 50), wCap, hCap)
              [] v = "CACTUS_CLUSTER_2" ->
                   capped(st, d, X(50, early(st, 74, 92)), Y(40, early(st, 62, 74)),
                          wCap, hCap)
              [] v = "CACTUS_CLUSTER_3" ->
                   capped(st, d, X(68, mid(st, 100, 118)), Y(42, mid(st, 72, 80)),
                          wCap, hCap)
              [] v = "ROCK_LOW" -> capped(st, d, X(26, 56), Y(16, 28), wCap, hCap)
              [] v = "ROCK_WIDE" ->
                   capped(st, d, X(56, mid(st, 98, 120)), Y(16, 30), wCap, hCap)
              [] v = "ROCK_STACK" -> capped(st, d, X(34, 66), Y(28, 48), wCap, hCap)
              [] v = "STUMP" -> capped(st, d, X(34, 58), Y(34, 54), wCap, hCap)
              [] OTHER -> capped(st, d, 26 * XU, 44 * YU, wCap, hCap)
  IN  dims(stage(s), difficulty01(s), mulberry32(seed),
           maxGroundWidthCap(s), maxGroundHeightCap(s))

Spawned(s, o, hardness) ==
  [s EXCEPT !.obs = Append(s.obs, o),
            !.lastKind = o.kind,
            !.lastSpawnHardness = hardness,
            !.lastSpawnWasHard = hardness >= 1000]

(* one obstacle for each pair of draws: seedInt(), pickGroundVariant() *)
spawnGroundObstacle(s, tallBias, U) ==
  LET made(seed, v, dims, hardness) ==
        Spawned(s, [kind |-> "CACTUS", variant |-> v, seed |-> seed,
                    hardness |-> hardness, flightLevel |-> -1,
                    x |-> s.viewW + SPAWN_MARGIN * XU, y |-> groundY - dims.h,
                    w |-> dims.w, h |-> dims.h], hardness)
      sized(seed, v, dims) ==
        made(seed, v, dims, computeGroundHardness(s, dims.w, dims.h, v))
      for(seed, v) == sized(seed, v, makeGroundDims(s, v, seed))
  IN  { for(seedInt(u1), pickGroundVariant(s, tallBias, u2)) : u1 \in U, u2 \in U }

LOW_FLYER_MID_SCORE == 650
LOW_FLYER_LATE_SCORE == 900
(* low flyers allowed from the start of a run *)
allowLowAlways(s) == TRUE

allowLow(s) ==
  \/ stage(s) = "MID" /\ s.score > LOW_FLYER_MID_SCORE * SU
  \/ stage(s) = "LATE" /\ (s.score > LOW_FLYER_LATE_SCORE * SU \/ 2 * difficulty01(s) > DU)

(* draws: roll, the repeat check (< 0.7), the replacement of level 1 (< 0.5) *)
pickFlyLevel(s, u1, u2, u3) ==
  LET guarded(level) == IF s.guardAfterPit > 0 /\ level = 0 THEN 1 ELSE level
      repeated(low, first, moved) ==
        IF first = s.lastFlyLevel /\ lt(u2, 70, 100)
        THEN (IF ~low /\ moved = 0 THEN 1 ELSE moved)
        ELSE first
      second(low, first) ==
        repeated(low, first,
                 IF first = 1 THEN (IF lt(u3, 50, 100) THEN 2 ELSE IF low THEN 0 ELSE 2)
                 ELSE 1)
      first(st, low) ==
        IF st = "EARLY" THEN (IF lt(u1, 70, 100) THEN 1 ELSE 2)
        ELSE IF st = "MID"
          THEN (IF low /\ lt(u1, 18, 100) THEN 0 ELSE IF lt(u1, 68, 100) THEN 1 ELSE 2)
        ELSE (IF low /\ lt(u1, 28, 100) THEN 0 ELSE IF lt(u1, 62, 100) THEN 1 ELSE 2)
      level(st, low) == guarded(second(low, first(st, low)))
  IN  level(stage(s), allowLow(s))

FLYER_W == 48
FLYER_H == 24
(* flyers of every level 16 px above the ground line, below the head of a
   ducking actor *)
flyerBottomLow(level) == groundY - (DUCK_H - 8) * YU

flyerBottom(level) ==
  CASE level = 0 -> groundY - (DUCK_H + 8) * YU
    [] level = 1 -> groundY - (DUCK_H + 26) * YU
    [] OTHER -> groundY - (STAND_H + 44) * YU
flyerHardness(level) == CASE level = 0 -> 1100 [] level = 1 -> 750 [] OTHER -> 600

(* a flyer spawned at the level asked for, whatever the guard after a pit *)
spawnFlyerUnguarded(s, level, U) ==
  LET guarded(t, useLevel) ==
        [t EXCEPT !.lastFlyLevel = useLevel,
                  !.guardAfterLowFlyer = IF useLevel = 0 THEN SAFE_AFTER_LOW_FLYER_DIST * XU
                                         ELSE t.guardAfterLowFlyer]
      made(useLevel, hardness) ==
        guarded(Spawned(s, [kind |-> "FLYER", variant |-> "NONE", seed |-> -1,
                            hardness |-> hardness, flightLevel |-> useLevel,
                            x |-> s.viewW + SPAWN_MARGIN * XU,
                            y |-> flyerBottom(useLevel) - FLYER_H * YU,
                            w |-> FLYER_W * XU, h |-> FLYER_H * YU], hardness),
                useLevel)
      at(useLevel) == made(useLevel, flyerHardness(useLevel))
  IN  { at(l) : l \in (IF level = -1
                       THEN {pickFlyLevel(s, u1, u2, u3) : u1 \in U, u2 \in U, u3 \in U}
                       ELSE {level}) }

(* level = -1 stands for an absent argument *)
spawnFlyer(s, level, U) ==
  LET guarded(t, useLevel) ==
        [t EXCEPT !.lastFlyLevel = useLevel,
                  !.guardAfterLowFlyer = IF useLevel = 0 THEN SAFE_AFTER_LOW_FLYER_DIST * XU
                                         ELSE t.guardAfterLowFlyer]
      made(useLevel, hardness) ==
        guarded(Spawned(s, [kind |-> "FLYER", variant |-> "NONE", seed |-> -1,
                            hardness |-> hardness, flightLevel |-> useLevel,
                            x |-> s.viewW + SPAWN_MARGIN * XU,
                            y |-> flyerBottom(useLevel) - FLYER_H * YU,
                            w |-> FLYER_W * XU, h |-> FLYER_H * YU], hardness),
                useLevel)
      at(useLevel) == made(useLevel, flyerHardness(useLevel))
  IN  { at(IF s.guardAfterPit > 0 /\ l = 0 THEN 1 ELSE l)
        : l \in (IF level = -1
                 THEN {pickFlyLevel(s, u1, u2, u3) : u1 \in U, u2 \in U, u3 \in U}
                 ELSE {level}) }

(* clamp(worldSpeed * 0.62 - 45, PIT_MIN_W, PIT_MAX_W_HARDCAP), in x units:
   0.62 px per px/s = 372 units per unit of worldSpeed *)
PIT_CLEAR_MARGIN == 45
(* the clearable width without the margin of 45 *)
computeSafePitWidthNoMargin(s) ==
  clamp(s.worldSpeed * 372, PIT_MIN_W * XU, PIT_MAX_W_HARDCAP * XU)

(* twice the clearable width, without the cap *)
computeSafePitWidthDouble(s) == 2 * (s.worldSpeed * 372 - PIT_CLEAR_MARGIN * XU)

computeSafePitWidth(s) ==
  clamp(s.worldSpeed * 372 - PIT_CLEAR_MARGIN * XU, PIT_MIN_W * XU, PIT_MAX_W_HARDCAP * XU)

PIT_HARDNESS == 1350
(* a pit of a width drawn up to the hard cap, whatever the speed *)
spawnPitToHardcap(s, width, U) ==
  LET guarded(t) == [t EXCEPT !.guardAfterPit = SAFE_AFTER_PIT_DIST * XU]
  IN  { guarded(Spawned(s, [kind |-> "PIT", variant |-> "NONE", seed |-> -1,
                            hardness |-> PIT_HARDNESS, flightLevel |-> -1,
                            x |-> s.viewW + SPAWN_MARGIN * XU, y |-> groundY,
                            w |-> w, h |-> PIT_VISUAL_DEPTH * YU], PIT_HARDNESS))
        : w \in (IF width = -1
                 THEN {rand(u, PIT_MIN_W * XU, PIT_MAX_W_HARDCAP * XU) : u \in U}
                 ELSE {width}) }

(* a pit whose width comes from a source other than the draws handed in *)
spawnPitOwnDraws(s, width, U) ==
  LET guarded(t) == [t EXCEPT !.guardAfterPit = SAFE_AFTER_PIT_DIST * XU]
  IN  { guarded(Spawned(s, [kind |-> "PIT", variant |-> "NONE", seed |-> -1,
                            hardness |-> PIT_HARDNESS, flightLevel |-> -1,
                            x |-> s.viewW + SPAWN_MARGIN * XU, y |-> groundY,
                            w |-> w, h |-> PIT_VISUAL_DEPTH * YU], PIT_HARDNESS))
        : w \in (IF width = -1
                 THEN {rand(u, PIT_MIN_W * XU, computeSafePitWidth(s)) : u \in {0, RD - 1}}
                 ELSE {width}) }

(* width = -1 stands for an absent argument *)
spawnPit(s, width, U) ==
  LET guarded(t) == [t EXCEPT !.guardAfterPit = SAFE_AFTER_PIT_DIST * XU]
  IN  { guarded(Spawned(s, [kind |-> "PIT", variant |-> "NONE", seed |-> -1,
                            hardness |-> PIT_HARDNESS, flightLevel |-> -1,
                            x |-> s.viewW + SPAWN_MARGIN * XU, y |-> groundY,
                            w |-> w, h |-> PIT_VISUAL_DEPTH * YU], PIT_HARDNESS))
        : w \in (IF width = -1
                 THEN {rand(u, PIT_MIN_W * XU, computeSafePitWidth(s)) : u \in U}
                 ELSE {width}) }

----------------------------------------------------------------------------
(* Spawn schedule and patterns: profile.ts 947-1223 *)

(* u / RD < (base + slope * difficulty01) / 100, base and slope in hundredths *)
chanceLt(u, base, slope, d) == u * 100 * DU < (base * DU + slope * d) * RD

(* a spawn distance behind a pit that is half the after-pit guard *)
computeNextSpawnDistShort(s, kind, hardness, u) ==
  LET stageMul == byStage(stage(s), 118, 100, 90)                \* hundredths
      min0 == ((240 * XU) \div 100) * stageMul
              + (IF kind = "FLYER" THEN 70 * XU ELSE 0)
              + (IF kind = "PIT" THEN 160 * XU ELSE 0)
              + hardness * ((90 * XU) \div HU)
              + (IF s.guardAfterPit > 0 THEN 80 * XU ELSE 0)
              + (IF s.guardAfterLowFlyer > 0 THEN 40 * XU ELSE 0)
      max0 == ((440 * XU) \div 100) * stageMul
              + (IF kind = "FLYER" THEN 90 * XU ELSE 0)
              + (IF kind = "PIT" THEN 240 * XU ELSE 0)
              + hardness * ((130 * XU) \div HU)
  IN  IF kind = "PIT" THEN (SAFE_AFTER_PIT_DIST * XU) \div 2
      ELSE rand(u, scaledGap(s, min0), scaledGap(s, max0))

computeNextSpawnDist(s, kind, hardness, u) ==
  LET stageMul == byStage(stage(s), 118, 100, 90)                \* hundredths
      min0 == ((240 * XU) \div 100) * stageMul
              + (IF kind = "FLYER" THEN 70 * XU ELSE 0)
              + (IF kind = "PIT" THEN 160 * XU ELSE 0)
              + hardness * ((90 * XU) \div HU)
              + (IF s.guardAfterPit > 0 THEN 80 * XU ELSE 0)
              + (IF s.guardAfterLowFlyer > 0 THEN 40 * XU ELSE 0)
      max0 == ((440 * XU) \div 100) * stageMul
              + (IF kind = "FLYER" THEN 90 * XU ELSE 0)
              + (IF kind = "PIT" THEN 240 * XU ELSE 0)
              + hardness * ((130 * XU) \div HU)
  IN  rand(u, scaledGap(s, min0), scaledGap(s, max0))

pushRecentPattern(recent, id) ==
  LET r == <<id>> \o recent IN SubSeq(r, 1, Min(3, Len(r)))

(* a check of the most recent pattern only *)
recentlyUsedLast(recent, id) == recent # <<>> /\ recent[1] = id

recentlyUsed(recent, id) == \E i \in 1..Len(recent) : recent[i] = id

(* a start that does not wait for the cooldown *)
canStartPatternNoCooldown(s, u) ==
  IF \/ s.score < PATTERN_SCORE_GATE * SU
     \/ ~s.patternQueue.null
     \/ s.lastKind = "PIT"
  THEN FALSE
  ELSE u * 100 * DU
         < Min(byStage(stage(s), 10, 20, 34) * DU + 12 * difficulty01(s), 55 * DU) * RD

canStartPattern(s, u) ==
  IF \/ s.score < PATTERN_SCORE_GATE * SU
     \/ ~s.patternQueue.null
     \/ s.patternCooldownDist > 0
     \/ s.lastKind = "PIT"
  THEN FALSE
  ELSE u * 100 * DU
         < Min(byStage(stage(s), 10, 20, 34) * DU + 12 * difficulty01(s), 55 * DU) * RD

setPatternCooldown(s, u) ==
  LET base == byStage(stage(s), 540, 430, 320) * XU
  IN  [s EXCEPT !.patternCooldownDist = scaledGap(s, base) + rand(u, 0, scaledGap(s, 180 * XU))]

(* base and the result in x units *)
gapBaseFor(s, st, base) ==
  LET d == difficulty01(s)
      tighten == byStage(st, 0, 10, 18)                          \* hundredths
      out == (base \div 100) * (100 - tighten)
             - MulDiv(d, (IF st = "LATE" THEN 35 ELSE 18) * (XU \div 1500), DU \div 1500)
  IN  Max(160 * XU, out)

jitter(u, n, amount) == n + rand(u, -amount, amount)

rLevel(u, set) == set[((u * Len(set)) \div RD) + 1]

Step(kind, gapBase, tallBias, level) ==
  [kind |-> kind, gapBase |-> gapBase, tallBias |-> tallBias, level |-> level,
   width |-> -1]

(* The catalog of buildPatterns(): id and weights (in tenths). *)
Patterns ==
  << [id |-> "P1_DOUBLE_FLYERS", wEarly |-> 16, wMid |-> 19, wLate |-> 20],
     [id |-> "P2_WAVE_HMH", wEarly |-> 12, wMid |-> 16, wLate |-> 18],
     [id |-> "P3_BAIT_HIGH_CACTUS", wEarly |-> 11, wMid |-> 14, wLate |-> 16],
     [id |-> "P4_CACTUS_THEN_FLYER", wEarly |-> 11, wMid |-> 14, wLate |-> 15],
     [id |-> "P5_TRIPLE_STUTTER", wEarly |-> 8, wMid |-> 13, wLate |-> 17],
     [id |-> "P6_MID_LOW_CHECK", wEarly |-> 0, wMid |-> 10, wLate |-> 17],
     [id |-> "P7_DUCK_THEN_JUMP", wEarly |-> 0, wMid |-> 7, wLate |-> 16] >>

(* The step lists build() of pattern id can return; tallBias in hundredths,
   -1 for an absent field. *)
buildPatterns(s, id, U) ==
  LET st == stage(s)
      levels == byStage(st, <<1, 2>>, <<1, 2, 1, 2, 0>>, <<0, 1, 2, 1, 0, 2>>)
      g(u, base, jitterAmt) == jitter(u, gapBaseFor(s, st, base * XU), jitterAmt * XU)
      reroll(ua, ub, uc, prev) ==
        IF rLevel(ua, levels) = prev /\ lt(ub, 70, 100) THEN rLevel(uc, levels)
        ELSE rLevel(ua, levels)
  IN  CASE id = "P1_DOUBLE_FLYERS" ->
             { <<Step("FLYER", 0, -1, rLevel(u1, levels)),
                 Step("FLYER", g(u5, 260, 28), -1, reroll(u2, u3, u4, rLevel(u1, levels)))>>
               : u1 \in U, u2 \in U, u3 \in U, u4 \in U, u5 \in U }
        [] id = "P2_WAVE_HMH" ->
             { <<Step("FLYER", 0, -1, 2), Step("FLYER", g(u2, 240, 26), -1, 1),
                 Step("FLYER", g(u3, 240, 26), -1, IF lt(u1, 50, 100) THEN 2 ELSE 1)>>
               : u1 \in U, u2 \in U, u3 \in U }
        [] id = "P3_BAIT_HIGH_CACTUS" ->
             { <<Step("FLYER", 0, -1, 2), Step("CACTUS", g(u1, 240, 22), 55, -1)>>
               : u1 \in U }
        [] id = "P4_CACTUS_THEN_FLYER" ->
             { <<Step("CACTUS", 0, 42, -1),
                 Step("FLYER", g(u2, 280, 30), -1,
                      IF st = "EARLY" THEN rLevel(u1, <<1, 2>>) ELSE rLevel(u1, levels))>>
               : u1 \in U, u2 \in U }
        [] id = "P5_TRIPLE_STUTTER" ->
             { <<Step("FLYER", 0, -1, rLevel(u1, levels)),
                 Step("FLYER", g(u6, 220, 26), -1, rLevel(u2, levels)),
                 Step("FLYER", g(u7, 220, 26), -1, reroll(u3, u4, u5, rLevel(u2, levels)))>>
               : u1 \in U, u2 \in U, u3 \in U, u4 \in U, u5 \in U, u6 \in U, u7 \in U }
        [] id = "P6_MID_LOW_CHECK" ->
             { <<Step("FLYER", 0, -1, 1), Step("FLYER", g(u1, 265, 18), -1, 0)>>
               : u1 \in U }
        [] OTHER ->
             { <<Step("FLYER", 0, -1, 0), Step("CACTUS", g(u1, 300, 18), 50, -1)>>
               : u1 \in U }

PATTERN_RETRIES == 5
(* The weighted draw over the candidates of the stage is repeated while it
   lands on a recently used id, PATTERN_RETRIES times at most; the draw after
   those is taken whatever it is. Result: the ids that can be picked, each
   with "exhausted" = it was taken by that last draw. The draws of the choice
   are taken from U, those of the steps built from V. *)
pickPatternFrom(s, U, V) ==
  LET st == stage(s)
      weight(p) == byStage(st, p.wEarly, p.wMid, p.wLate)
      candidates == SelectSeq(Patterns, LAMBDA p : weight(p) > 0)
      chosen(u) ==
        LET k == weightedDraw(u, [j \in 1..Len(candidates) |-> weight(candidates[j])])
        IN  candidates[IF k = 0 THEN 1 ELSE k].id
      recent(u) == recentlyUsed(s.recentPatterns, chosen(u))
      early == {[id |-> chosen(u), exhausted |-> FALSE] : u \in {v \in U : ~recent(v)}}
      late == IF \E v \in U : recent(v)
              THEN {[id |-> chosen(u), exhausted |-> TRUE] : u \in U} ELSE {}
  IN  IF candidates = <<>> THEN {}
      ELSE UNION {{[id |-> c.id, exhausted |-> c.exhausted, steps |-> q]
                     : q \in buildPatterns(s, c.id, V)} : c \in early \cup late}

pickPattern(s, U) == pickPatternFrom(s, U, U)

(* pickPattern() returns null only for an empty candidate list *)
(* the assignments of startPattern() for the picked pattern p *)
startPicked(s, p, u) ==
  setPatternCooldown(
    [s EXCEPT !.patternQueue = [null |-> FALSE, steps |-> p.steps],
              !.recentPatterns = pushRecentPattern(s.recentPatterns, p.id)], u)

startPattern(s, U) ==
  LET picked == pickPattern(s, U)
  IN  IF picked = {} THEN {s}
      ELSE { startPicked(s, p, u) : p \in picked, u \in U }

spawnStep(s, step, U) ==
  IF step.kind = "CACTUS"
  THEN spawnGroundObstacle(s, IF step.tallBias = -1 THEN 45 ELSE step.tallBias, U)
  ELSE IF step.kind = "FLYER" THEN spawnFlyer(s, step.level, U)
  ELSE spawnPit(s, step.width, U)

(* draws: roll, then one draw for each Math.random() comparison in order.
   The call that is made - spawnGroundObstacle(tallBias), spawnFlyer(level),
   spawnFlyer() or spawnPit() - is written as the step that makes it. *)
(* a single spawn whose pit branch has no score gate and no look at the last kind *)
spawnSingleFairAnyPit(s, U) ==
  LET d == difficulty01(s)
      st == stage(s)
      allowFlyers == s.score > PIT_SPAWN_SCORE_GATE * SU \/ 20 * d > 3 * DU
      allowPits == s.score >= PIT_SPAWN_SCORE_GATE * SU
      canPit == TRUE
      avoidFlyer == ~allowFlyers \/ (s.lastKind = "FLYER" /\ s.score < STAGE_MID_SCORE * SU)
      avoidGroundTight ==
        s.guardAfterLowFlyer > 0 /\ s.score < LOW_FLYER_LATE_SCORE * SU
      flyerLt(u) == allowFlyers /\ chanceLt(u, byStage(st, 12, 22, 30), 12, d)
      call(roll, u2, u3, u4, u5) ==
        IF canPit /\ chanceLt(roll, 12, 16, d) /\ s.guardAfterPit <= 0
        THEN IF s.lastKind = "FLYER" /\ s.lastSpawnWasHard /\ lt(u2, 65, 100)
             THEN Step("CACTUS", 0, 42, -1)
             ELSE Step("PIT", 0, -1, -1)
        ELSE IF ~avoidFlyer /\ flyerLt(u3)
        THEN IF s.lastSpawnWasHard /\ lt(u4, 60, 100)
             THEN Step("CACTUS", 0, 40, -1)
             ELSE Step("FLYER", 0, -1, -1)
        ELSE IF avoidGroundTight /\ lt(u5, 30, 100)
        THEN Step("FLYER", 0, -1, 1)
        ELSE Step("CACTUS", 0, 45, -1)
  IN  UNION { spawnStep(s, c, U)
              : c \in {call(u1, u2, u3, u4, u5)
                        : u1 \in U, u2 \in U, u3 \in U, u4 \in U, u5 \in U} }

spawnSingleFair(s, U) ==
  LET d == difficulty01(s)
      st == stage(s)
      allowFlyers == s.score > PIT_SPAWN_SCORE_GATE * SU \/ 20 * d > 3 * DU
      allowPits == s.score >= PIT_SPAWN_SCORE_GATE * SU
      canPit == allowPits /\ s.lastKind # "PIT"
      avoidFlyer == ~allowFlyers \/ (s.lastKind = "FLYER" /\ s.score < STAGE_MID_SCORE * SU)
      avoidGroundTight ==
        s.guardAfterLowFlyer > 0 /\ s.score < LOW_FLYER_LATE_SCORE * SU
      flyerLt(u) == allowFlyers /\ chanceLt(u, byStage(st, 12, 22, 30), 12, d)
      call(roll, u2, u3, u4, u5) ==
        IF canPit /\ chanceLt(roll, 12, 16, d) /\ s.guardAfterPit <= 0
        THEN IF s.lastKind = "FLYER" /\ s.lastSpawnWasHard /\ lt(u2, 65, 100)
             THEN Step("CACTUS", 0, 42, -1)
             ELSE Step("PIT", 0, -1, -1)
        ELSE IF ~avoidFlyer /\ flyerLt(u3)
        THEN IF s.lastSpawnWasHard /\ lt(u4, 60, 100)
             THEN Step("CACTUS", 0, 40, -1)
             ELSE Step("FLYER", 0, -1, -1)
        ELSE IF avoidGroundTight /\ lt(u5, 30, 100)
        THEN Step("FLYER", 0, -1, 1)
        ELSE Step("CACTUS", 0, 45, -1)
  IN  UNION { spawnStep(s, c, U)
              : c \in {call(u1, u2, u3, u4, u5)
                        : u1 \in U, u2 \in U, u3 \in U, u4 \in U, u5 \in U} }

(* a schedule that takes no notice of the pattern queue *)
scheduleNextAlwaysFair(s, U) ==
  {[s EXCEPT !.nextSpawnDist =
               computeNextSpawnDist(s, s.lastKind, s.lastSpawnHardness, u),
             !.distSinceSpawn = 0] : u \in U}

scheduleNextAfterSpawn(s, U) ==
  IF ~s.patternQueue.null /\ Len(s.patternQueue.steps) > 0
  THEN {[s EXCEPT !.nextSpawnDist = scaledGap(s, s.patternQueue.steps[1].gapBase),
                  !.distSinceSpawn = 0]}
  ELSE {[s EXCEPT !.nextSpawnDist =
                     computeNextSpawnDist(s, s.lastKind, s.lastSpawnHardness, u),
                  !.distSinceSpawn = 0] : u \in U}

(* patternQueue.shift(), spawnStep, null the queue when empty, schedule *)
(* a queue that sets the cooldown when its last step has been spawned *)
spawnQueuedSetsCooldown(s, U) ==
  LET step == Head(s.patternQueue.steps)
      rest == Tail(s.patternQueue.steps)
      popped == [s EXCEPT !.patternQueue.steps = rest]
  IN  UNION { scheduleNextAfterSpawn(
                IF rest = <<>>
                THEN setPatternCooldown([t EXCEPT !.patternQueue = NullQueue], u)
                ELSE t, U)
              : t \in spawnStep(popped, step, U), u \in U }

spawnQueued(s, U) ==
  LET step == Head(s.patternQueue.steps)
      rest == Tail(s.patternQueue.steps)
      popped == [s EXCEPT !.patternQueue.steps = rest]
  IN  UNION { scheduleNextAfterSpawn(
                IF rest = <<>> THEN [t EXCEPT !.patternQueue = NullQueue] ELSE t, U)
              : t \in spawnStep(popped, step, U) }

(* A pattern is started when the queue is empty and canStartPattern();
   then the head of the queue, if there is one, is spawned, and a single
   fair obstacle otherwise. *)
(* a spawn opportunity that puts two obstacles in the store *)
spawnManagerTickTwice(s, U) ==
  UNION {scheduleNextAfterSpawn(v, U)
           : v \in UNION {spawnSingleFair(t, U) : t \in spawnSingleFair(s, U)}}

(* a spawn opportunity that looks at the queue only in the tick that starts
   the pattern: later opportunities take a single fair spawn *)
spawnManagerTickForgetsQueue(s, U) ==
  LET active(t) == ~t.patternQueue.null /\ Len(t.patternQueue.steps) > 0
      single(t) == UNION {scheduleNextAfterSpawn(v, U) : v \in spawnSingleFair(t, U)}
      spawn(t) == IF active(t) /\ ~active(s) THEN spawnQueued(t, U) ELSE single(t)
      started ==
        IF active(s) THEN {s}
        ELSE UNION {IF canStartPattern(s, u) THEN startPattern(s, U) ELSE {s} : u \in U}
  IN  UNION {spawn(t) : t \in started}

spawnManagerTick(s, U) ==
  LET queued(t) == ~t.patternQueue.null /\ Len(t.patternQueue.steps) > 0
      single(t) == UNION {scheduleNextAfterSpawn(v, U) : v \in spawnSingleFair(t, U)}
      spawn(t) == IF queued(t) THEN spawnQueued(t, U) ELSE single(t)
      started ==
        IF queued(s) THEN {s}
        ELSE UNION {IF canStartPattern(s, u) THEN startPattern(s, U) ELSE {s} : u \in U}
  IN  UNION {spawn(t) : t \in started}

----------------------------------------------------------------------------
(* The fixed tick: profile.ts 1562-1667 *)

(* g * dt in vy units, g = GRAVITY scaled by the hold and fast-fall factors *)
gravityStep(hold, fast) ==
  (((GRAVITY * VU * FIXED_DT) \div TU)
     * (IF hold THEN HOLD_GRAVITY_MULT ELSE 100)
     * (IF fast THEN FAST_FALL_MULT ELSE 100)) \div 10000

(* worldSpeed * dt in x units *)
travel(s) == s.worldSpeed * ((XU * FIXED_DT) \div (WU * TU))

countDown(v, by) == IF v > 0 THEN Max(0, v - by) ELSE v

RECURSIVE cull(_)
cull(os) ==
  IF os # <<>> /\ os[1].x + os[1].w < -(CULL_MARGIN * XU) THEN cull(Tail(os)) ELSE os

(* a scan that does not skip pits *)
collidesAnyKind(d, os) ==
  \E i \in 1..Len(os) : aabb(dinoHitbox(d), obHitbox(os[i]))

collides(d, os) ==
  \E i \in 1..Len(os) : os[i].kind # "PIT" /\ aabb(dinoHitbox(d), obHitbox(os[i]))

fatalFall(d) == d.y > viewH + FALL_MARGIN * YU

(* a ground that exists wherever no pit is under the actor *)
groundExistsOffPit(s, overPit) == ~overPit

groundExistsHere(s, overPit) == ~s.pitFall /\ ~overPit

(* lines 1580-1628: speed, score, guards, duck, coyote, jump, gravity, landing *)
physics(s) ==
  LET landing(s7, overPit, groundTop) ==
        IF groundExistsHere(s7, overPit) /\ s7.dino.y >= groundTop
        THEN applyDuckVisual([s7 EXCEPT !.dino.y = groundTop, !.dino.vy = 0,
                                        !.dino.onGround = TRUE, !.jumpHold = 0],
                             s7.downDown)
        ELSE [s7 EXCEPT !.dino.onGround = FALSE, !.dino.ducking = FALSE]
      pitLock(s6, overPit, groundTop) ==
        landing([s6 EXCEPT !.pitFall = s6.pitFall
                              \/ (overPit /\ s6.dino.y > groundTop + PIT_FALL_LOCK_DEPTH * YU)],
                overPit, groundTop)
      integrate(s5, hold, vy) ==
        [s5 EXCEPT !.jumpHold = IF hold THEN s5.jumpHold + FIXED_DT ELSE s5.jumpHold,
                   !.dino.vy = vy,
                   !.dino.y = s5.dino.y + vy]
      ground(s6) == pitLock(s6, isOverPit(s6.dino, s6.obs), groundY - s6.dino.h)
      gravity(s5, hold, fast) ==
        ground(integrate(s5, hold, s5.dino.vy + gravityStep(hold, fast)))
      jump(s5) ==
        gravity(s5,
                ~s5.dino.onGround /\ s5.jumpDown /\ s5.dino.vy < 0
                  /\ s5.jumpHold < MAX_JUMP_HOLD,
                ~s5.dino.onGround /\ s5.downDown)
      timers(s3) ==
        jump(tryConsumeJump([s3 EXCEPT !.coyote = IF s3.dino.onGround THEN COYOTE_TIME
                                                  ELSE Max(0, s3.coyote - FIXED_DT)]))
      counters(s1) ==
        timers(applyDuckVisual(
                 [s1 EXCEPT !.score = s1.score + s1.worldSpeed,
                            !.patternCooldownDist =
                               countDown(s1.patternCooldownDist, travel(s1)),
                            !.guardAfterPit = countDown(s1.guardAfterPit, travel(s1)),
                            !.guardAfterLowFlyer =
                               countDown(s1.guardAfterLowFlyer, travel(s1))],
                 s1.downDown))
  IN  counters([s EXCEPT !.worldSpeed = s.worldSpeed + 1])

(* lines 1653-1666: spawn, scroll, cull, collide. The upper clamp of
   distSinceSpawn (1e9 px) lies beyond every distance a run reaches. *)
world(s, U) ==
  LET collide(t) ==
        IF collides(t.dino, t.obs) THEN [gameOver(t) EXCEPT !.cause = "collision"] ELSE t
      scroll(t) ==
        collide([t EXCEPT !.obs = cull([i \in 1..Len(t.obs) |->
                                          [t.obs[i] EXCEPT !.x = t.obs[i].x - travel(t)]])])
      spawn(s1) ==
        IF s1.distSinceSpawn >= s1.nextSpawnDist THEN spawnManagerTick(s1, U) ELSE {s1}
  IN  { scroll(t)
        : t \in spawn([s EXCEPT !.distSinceSpawn = Max(0, s.distSinceSpawn + travel(s))]) }

(* a tick that keeps simulating after the game is over *)
updateAfterGameOver(s, U) ==
  LET run(p) ==
        IF fatalFall(p.dino) THEN {[gameOver(p) EXCEPT !.cause = "fall"]} ELSE world(p, U)
      step(s1) ==
        IF s1.state = "READY" THEN {tryConsumeJump([s1 EXCEPT !.coyote = COYOTE_TIME])}
        ELSE run(physics(s1))
  IN  step([s EXCEPT !.jumpBuffer = countDown(s.jumpBuffer, FIXED_DT), !.cause = "none"])

update(s, U) ==
  LET run(p) ==
        IF fatalFall(p.dino) THEN {[gameOver(p) EXCEPT !.cause = "fall"]} ELSE world(p, U)
      step(s1) ==
        IF s1.state = "READY" THEN {tryConsumeJump([s1 EXCEPT !.coyote = COYOTE_TIME])}
        ELSE IF s1.state = "GAMEOVER" THEN {s1}
        ELSE run(physics(s1))
  IN  step([s EXCEPT !.jumpBuffer = countDown(s.jumpBuffer, FIXED_DT), !.cause = "none"])

----------------------------------------------------------------------------
(* Initial state: the closure variables as declared (284-350), then resize()
   and resetToReady() (1470-1474). best is read from storage, where no best
   score has been stored yet. *)

Declared ==
  [state |-> "READY", viewW |-> MIN_VIEW_W * XU,
   worldSpeed |-> BASE_SPEED * WU, score |-> 0, best |-> 0,
   bestStored |-> 0,
   distSinceSpawn |-> 0, nextSpawnDist |-> READY_SPAWN_DIST * XU, obs |-> <<>>,
   lastKind |-> "CACTUS", lastFlyLevel |-> 1,
   lastSpawnHardness |-> 550, lastSpawnWasHard |-> FALSE,
   patternQueue |-> NullQueue, patternCooldownDist |-> 0, recentPatterns |-> <<>>,
   guardAfterPit |-> 0, guardAfterLowFlyer |-> 0,
   jumpDown |-> FALSE, downDown |-> FALSE, jumpBuffer |-> 0, coyote |-> 0, jumpHold |-> 0,
   showHitboxes |-> FALSE, pitFall |-> FALSE,
   dino |-> [StandingDino EXCEPT !.y = 0], cause |-> "none"]

(* the variables hold the record s, nothing is pending *)
(* a render of route(): the path, whether the render returned a function,
   whether that function throws when called, and how often it was called
   and its exception caught so far *)
Rendered(path, fn, throws) ==
  [path |-> path, fn |-> fn, throws |-> throws, calls |-> 0, caught |-> 0]

Start(s) ==
  /\ state = s.state /\ viewW = s.viewW
  /\ worldSpeed = s.worldSpeed /\ score = s.score /\ best = s.best
  /\ bestStored = s.bestStored
  /\ distSinceSpawn = s.distSinceSpawn /\ nextSpawnDist = s.nextSpawnDist
  /\ obs = s.obs /\ lastKind = s.lastKind /\ lastFlyLevel = s.lastFlyLevel
  /\ lastSpawnHardness = s.lastSpawnHardness /\ lastSpawnWasHard = s.lastSpawnWasHard
  /\ patternQueue = s.patternQueue /\ patternCooldownDist = s.patternCooldownDist
  /\ recentPatterns = s.recentPatterns /\ guardAfterPit = s.guardAfterPit
  /\ guardAfterLowFlyer = s.guardAfterLowFlyer /\ jumpDown = s.jumpDown
  /\ downDown = s.downDown /\ jumpBuffer = s.jumpBuffer /\ coyote = s.coyote
  /\ jumpHold = s.jumpHold /\ showHitboxes = s.showHitboxes /\ pitFall = s.pitFall
  /\ dino = s.dino /\ cause = s.cause
  /\ acc = 0 /\ draining = FALSE
  /\ inputs = 0 /\ pressGrounded = FALSE /\ released = FALSE
  /\ cleanup = 1 /\ pages = <<Rendered("/play", TRUE, FALSE)>>

Init == Start(resetToReady(Declared)) /\ ev = "init"

----------------------------------------------------------------------------
(* Input handlers: profile.ts 1477-1528. They run between frames. *)

Input(name) ==
  /\ ~draining
  /\ inputs < MaxInputs
  /\ inputs' = inputs + 1
  /\ ev' = name
  /\ UNCHANGED <<acc, draining>>

KeyDownH ==
  /\ Input("KeyH")
  /\ Commit([Cur EXCEPT !.showHitboxes = ~showHitboxes])
  /\ UNCHANGED <<pressGrounded, released>>

KeyDownR ==
  /\ Input(IF state = "GAMEOVER" THEN "restart" ELSE "reset")
  /\ Commit(IF state = "GAMEOVER" THEN restartRun(Cur) ELSE resetToReady(Cur))
  /\ pressGrounded' = FALSE /\ released' = FALSE

KeyDownDuck ==
  /\ Input("duckDown")
  /\ Commit(applyDuckVisual([Cur EXCEPT !.downDown = TRUE], TRUE))
  /\ UNCHANGED <<pressGrounded, released>>

KeyDownJump ==
  /\ Input("jumpDown")
  /\ Commit([(IF ~jumpDown THEN queueJump(Cur) ELSE Cur) EXCEPT !.jumpDown = TRUE])
  /\ pressGrounded' = IF ~jumpDown THEN (state = "RUNNING" /\ dino.onGround) ELSE pressGrounded
  /\ released' = IF ~jumpDown THEN FALSE ELSE released

KeyUpDuck ==
  /\ Input("duckUp")
  /\ Commit([Cur EXCEPT !.downDown = FALSE])
  /\ UNCHANGED <<pressGrounded, released>>

KeyUpJump ==
  /\ Input("jumpUp")
  /\ Commit(cutJumpIfNeeded([Cur EXCEPT !.jumpDown = FALSE]))
  /\ released' = pressGrounded
  /\ UNCHANGED pressGrounded

PointerDown ==
  /\ Input(IF state = "GAMEOVER" THEN "restart" ELSE "tap")
  /\ Commit(IF state = "GAMEOVER" THEN restartRun(Cur)
            ELSE [queueJump(Cur) EXCEPT !.jumpDown = TRUE])
  /\ pressGrounded' = (state = "RUNNING" /\ dino.onGround)
  /\ released' = FALSE

PointerUp ==
  /\ Input("pointerUp")
  /\ Commit(cutJumpIfNeeded([Cur EXCEPT !.jumpDown = FALSE]))
  /\ released' = pressGrounded
  /\ UNCHANGED pressGrounded

----------------------------------------------------------------------------
(* The frame loop: profile.ts 1545-1560. Frame adds the clamped wall-clock
   delta to the accumulator; Tick is one pass of the drain loop. *)

FrameDeltas == {MAX_FRAME_DT}

(* a frame that drops the leftover of the frame before it *)
FrameStepDropsLeftover(deltas, maxTicks) ==
  /\ ~draining
  /\ state = "RUNNING" => worldSpeed < BASE_SPEED * WU + maxTicks
  /\ \E delta \in deltas :
       /\ acc' = Min(MAX_FRAME_DT, delta)
       /\ draining' = (Min(MAX_FRAME_DT, delta) >= FIXED_DT)
  /\ ev' = "frame"
  /\ UNCHANGED <<simVars, routerVars, cause, inputs, pressGrounded, released>>

(* a frame that adds the wall-clock delta as it is *)
FrameStepUnclamped(deltas, maxTicks) ==
  /\ ~draining
  /\ state = "RUNNING" => worldSpeed < BASE_SPEED * WU + maxTicks
  /\ \E delta \in deltas :
       LET a == IF acc + delta > MAX_ACCUM THEN MAX_ACCUM ELSE acc + delta
       IN  /\ acc' = a
           /\ draining' = (a >= FIXED_DT)
  /\ ev' = "frame"
  /\ UNCHANGED <<simVars, routerVars, cause, inputs, pressGrounded, released>>

FrameStep(deltas, maxTicks) ==
  /\ ~draining
  /\ state = "RUNNING" => worldSpeed < BASE_SPEED * WU + maxTicks
  /\ \E delta \in deltas :
       LET dt == Min(MAX_FRAME_DT, delta)
           a == IF acc + dt > MAX_ACCUM THEN MAX_ACCUM ELSE acc + dt
       IN  /\ acc' = a
           /\ draining' = (a >= FIXED_DT)
  /\ ev' = "frame"
  /\ UNCHANGED <<simVars, routerVars, cause, inputs, pressGrounded, released>>

Frame == FrameStep(FrameDeltas, MaxSpeedTicks)

(* the values Math.random() takes in Spec *)
RandomLow == {0}

TickStep(U) ==
  /\ draining
  /\ \E t \in update(Cur, U) : Commit(t)
  /\ acc' = acc - FIXED_DT
  /\ draining' = (acc - FIXED_DT >= FIXED_DT)
  /\ ev' = "tick"
  /\ UNCHANGED <<inputs, pressGrounded, released>>

Tick == TickStep(RandomLow)

Next ==
  \/ KeyDownH \/ KeyDownR \/ KeyDownDuck \/ KeyDownJump
  \/ KeyUpDuck \/ KeyUpJump \/ PointerDown \/ PointerUp
  \/ Frame \/ Tick

Spec == Init /\ [][Next]_vars

----------------------------------------------------------------------------
(* Run state machine *)

Fatal == {"collision", "fall"}

(* C1, as stated: while RUNNING the state changes only to GAMEOVER, and only
   in a tick that detected a fatal collision or fall; no input leaves RUNNING. *)
C1_RunningExitsOnlyFatal ==
  [][state = "RUNNING" /\ state' # "RUNNING"
       => state' = "GAMEOVER" /\ ev' = "tick" /\ cause' \in Fatal]_vars

(* C1, amended: RUNNING is left only to GAMEOVER by a tick that detected a
   fatal collision or fall, or to READY by the R key (resetToReady); jump,
   duck, pointer tap and the debug toggle never leave RUNNING. *)
C1_RunningExits ==
  [][state = "RUNNING" /\ state' # "RUNNING"
       => \/ state' = "GAMEOVER" /\ ev' = "tick" /\ cause' \in Fatal
          \/ state' = "READY" /\ ev' = "reset"]_vars

(* a tick has ended the run on a collision *)
C1_Witness == state = "GAMEOVER" /\ ev = "tick" /\ cause = "collision"

(* C2: while READY the state changes only in a tick that consumes a buffered
   jump, and then to RUNNING; a tick with no buffered jump, duck, jump
   release, the debug toggle and the R key leave it READY. *)
C2_ReadyExits ==
  [][state = "READY"
       => /\ state' # "READY"
             => state' = "RUNNING" /\ ev' = "tick" /\ jumpBuffer > 0 /\ jumpBuffer' = 0
          /\ ev' \in {"duckDown", "duckUp", "jumpUp", "pointerUp", "KeyH", "reset"}
             => state' = "READY"
          /\ ev' = "tick" /\ jumpBuffer = 0 => state' = "READY"]_vars

(* the tick that started the run: the jump is under way, nothing has moved *)
C2_Witness ==
  /\ state = "RUNNING" /\ ev = "tick" /\ ~dino.onGround
  /\ dino.vy = JUMP_VELOCITY * VU /\ worldSpeed = BASE_SPEED * WU

(* C3: while GAMEOVER the state changes only by a restart (R key or pointer
   tap), and then to RUNNING; ticks, jump key presses and releases and duck
   leave it GAMEOVER. No input leads from GAMEOVER to READY. *)
C3_GameOverExits ==
  [][state = "GAMEOVER"
       => /\ state' # "GAMEOVER" => state' = "RUNNING" /\ ev' = "restart"
          /\ ev' \in {"tick", "jumpDown", "jumpUp", "duckDown", "duckUp"}
             => state' = "GAMEOVER"]_vars

(* a restart after a game over that recorded a best score *)
C3_Witness == state = "RUNNING" /\ ev = "restart" /\ best > 0

(* C4: a tick that starts in READY or GAMEOVER leaves worldSpeed, score, the
   obstacle list, distSinceSpawn, both guards and the pattern cooldown as
   they are. *)
C4_IdleTickFreezesWorld ==
  [][ev' = "tick" /\ state \in {"READY", "GAMEOVER"}
       => UNCHANGED <<worldSpeed, score, obs, distSinceSpawn,
                      guardAfterPit, guardAfterLowFlyer, patternCooldownDist>>]_vars

(* a tick that started in GAMEOVER, with obstacles on the field *)
C4_Witness ==
  state = "GAMEOVER" /\ ev = "tick" /\ cause = "none" /\ obs # <<>> /\ score > 0

(* C5: after resetToReady the state is READY, worldSpeed 260, score 0, the
   actor stands grounded (32 x 32, vy 0, y = groundY - 32, not ducking), the
   obstacle list is empty, distSinceSpawn, the pattern cooldown, both guards,
   jumpBuffer and jumpHold are 0, there is no pattern queue, the pattern
   history is empty and pitFall is false. *)
C5_ResetValues ==
  ev \in {"init", "reset"}
    => /\ state = "READY" /\ worldSpeed = 260 * WU /\ score = 0
       /\ dino.w = 32 * XU /\ dino.h = 32 * YU /\ dino.vy = 0
       /\ dino.y = groundY - 32 * YU /\ dino.onGround /\ ~dino.ducking
       /\ obs = <<>> /\ distSinceSpawn = 0
       /\ patternQueue.null /\ patternCooldownDist = 0 /\ recentPatterns = <<>>
       /\ guardAfterPit = 0 /\ guardAfterLowFlyer = 0
       /\ ~pitFall /\ jumpBuffer = 0 /\ jumpHold = 0

(* a reset, by the R key, of a run that followed a game over *)
C5_Witness == ev = "reset" /\ best > 0

(* C6, as stated: after a restart every simulation variable has the value a
   reset gives it, except state, which is RUNNING. *)
C6_RestartEqualsReset ==
  ev = "restart" => Cur = [resetToReady(Cur) EXCEPT !.state = "RUNNING"]

(* C6, amended: a restart gives every simulation variable the value a reset
   gives it, except that state is RUNNING, nextSpawnDist is 320 (a reset: 360)
   and jumpBuffer keeps the value it had before the restart. *)
C6_Restart ==
  [][ev' = "restart"
       => /\ state' = "RUNNING"
          /\ nextSpawnDist' = 320 * XU
          /\ jumpBuffer' = jumpBuffer
          /\ worldSpeed' = 260 * WU /\ score' = 0 /\ dino' = StandingDino
          /\ obs' = <<>> /\ distSinceSpawn' = 0
          /\ lastKind' = "CACTUS" /\ lastFlyLevel' = 1
          /\ lastSpawnHardness' = 550 /\ lastSpawnWasHard' = FALSE
          /\ patternQueue' = NullQueue /\ patternCooldownDist' = 0
          /\ recentPatterns' = <<>>
          /\ guardAfterPit' = 0 /\ guardAfterLowFlyer' = 0
          /\ coyote' = COYOTE_TIME /\ jumpHold' = 0 /\ pitFall' = FALSE]_vars

(* a restart from the game-over screen: the first spawn is due after 320 *)
C6_Witness ==
  /\ ev = "restart" /\ inputs = 2 /\ nextSpawnDist = FRESH_SPAWN_DIST * XU
  /\ nextSpawnDist # resetToReady(Cur).nextSpawnDist

(* C10, as stated: after jump press and release have been delivered to a
   grounded running actor, at every tick boundary before the next press the
   vertical velocity is no more upward than the cut velocity. *)
C10_ReleasedJumpIsCut ==
  released /\ ev = "tick" => dino.vy >= JUMP_CUT_VELOCITY * VU

----------------------------------------------------------------------------
(* Pit width as a function of the world speed: computeSafePitWidth and
   spawnPit (profile.ts 926-945) applied at each speed of PitSpeeds, with the
   draw of the width taken from RandomWide. *)

MaxPitSpeeds == 60
PitSpeedStep == 75
PitSpeeds == {BASE_SPEED * WU + k * PitSpeedStep : k \in 0..MaxPitSpeeds}
RandomWide == {0, 250, 500, 750, RD - 1}

InitWidth ==
  \E w \in PitSpeeds :
    /\ Start([startRunFresh(resetToReady(Declared)) EXCEPT !.worldSpeed = w])
    /\ ev = "init"

SpawnPitStep ==
  /\ obs = <<>>
  /\ \E t \in spawnPit(Cur, -1, RandomWide) : Commit(t)
  /\ ev' = "spawnPit"
  /\ UNCHANGED <<acc, draining, inputs, pressGrounded, released>>

SpecWidth == InitWidth /\ [][SpawnPitStep]_vars

Pits == {i \in 1..Len(obs) : obs[i].kind = "PIT"}

(* 115.2 and 116.2 px in x units *)
PIT_W_260_STATED == (1152 * XU) \div 10
PIT_W_260 == (1162 * XU) \div 10

(* C9, as stated: at world speed 260 computeSafePitWidth() lies in
   [90, 115.2] and so does the width of a pit spawned at that speed. *)
C9_WidthAt260Stated ==
  worldSpeed = 260 * WU
    => /\ computeSafePitWidth(Cur) >= PIT_MIN_W * XU
       /\ computeSafePitWidth(Cur) <= PIT_W_260_STATED
       /\ \A i \in Pits : obs[i].w >= PIT_MIN_W * XU /\ obs[i].w <= PIT_W_260_STATED

(* C9, amended: at world speed 260 computeSafePitWidth() is
   0.62 * 260 - 45 = 116.2, and a pit spawned at that speed has a width in
   [90, 116.2]. *)
C9_WidthAt260 ==
  worldSpeed = 260 * WU
    => /\ computeSafePitWidth(Cur) = PIT_W_260
       /\ \A i \in Pits : obs[i].w >= PIT_MIN_W * XU /\ obs[i].w <= PIT_W_260

(* a pit spawned at speed 260 that is wider than 115.2 *)
C9_Witness ==
  worldSpeed = 260 * WU /\ \E i \in Pits : obs[i].w > PIT_W_260_STATED

----------------------------------------------------------------------------
(* A run that is played up to and past the score at which pits may spawn.
   The player taps (onPointerDown, profile.ts 1517-1524) to start the run and
   whenever a pit or a ground obstacle comes within reach, and lets flyers
   pass overhead; Math.random() returns 0 until
   pits may spawn and a value of RandomPits after that. *)

MaxPitTicks == 1450
RandomPits == {0, RD - 1}
PIT_LEAD_TICKS == 12
OBSTACLE_LEAD_TICKS == 30

ahead(s, o) == o.x - (s.dino.x + s.dino.w)

wantJump(s) ==
  \/ s.state = "READY" /\ s.jumpBuffer = 0
  \/ /\ s.state = "RUNNING" /\ s.dino.onGround /\ s.jumpBuffer = 0
     /\ \E i \in 1..Len(s.obs) :
          /\ s.obs[i].kind # "FLYER"
          /\ ahead(s, s.obs[i]) > 0
          /\ ahead(s, s.obs[i])
               <= travel(s) * (IF s.obs[i].kind = "PIT" THEN PIT_LEAD_TICKS
                               ELSE OBSTACLE_LEAD_TICKS)

TapStep(want) ==
  /\ ~draining
  /\ want
  /\ Commit([queueJump(Cur) EXCEPT !.jumpDown = TRUE])
  /\ ev' = "tap"
  /\ pressGrounded' = (state = "RUNNING" /\ dino.onGround)
  /\ released' = FALSE
  /\ UNCHANGED <<acc, draining, inputs>>

PilotTap == TapStep(wantJump(Cur))

PilotFrame == ~wantJump(Cur) /\ FrameStep(FrameDeltas, MaxPitTicks)

PilotTick ==
  TickStep(IF score < PIT_SPAWN_SCORE_GATE * SU THEN RandomLow ELSE RandomPits)

NextPits == PilotTap \/ PilotFrame \/ PilotTick

SpecPits == Init /\ [][NextPits]_vars

(* a pit spawned in the tick that just ended: it entered at viewW + 40 and
   was scrolled once *)
JustSpawned(o) == o.x = viewW + SPAWN_MARGIN * XU - travel(Cur)

(* C7: every pit in the obstacle list is at least PIT_MIN_W wide, and at the
   end of the tick that spawned it its width is at most computeSafePitWidth()
   at the world speed of that tick; as the speed only grows during a run, the
   width stays at most computeSafePitWidth() for as long as the pit is listed. *)
C7_PitWidthWithinSafe ==
  \A i \in Pits :
    /\ obs[i].w >= PIT_MIN_W * XU
    /\ obs[i].w <= computeSafePitWidth(Cur)
    /\ obs[i].w <= PIT_MAX_W_HARDCAP * XU

(* a pit just spawned with the largest draw: wider than the minimum and
   within a thousandth of the range below computeSafePitWidth() *)
C7_Witness ==
  \E i \in Pits :
    /\ ev = "tick" /\ JustSpawned(obs[i])
    /\ obs[i].w > PIT_MIN_W * XU
    /\ obs[i].w = rand(RD - 1, PIT_MIN_W * XU, computeSafePitWidth(Cur))

(* the draw of the width that gives the widest pit the director may spawn *)
WIDEST_DRAW == RD - 1
Widest(o) ==
  /\ o.kind = "PIT"
  /\ \E k \in 1..MaxPitTicks :
       /\ BASE_SPEED * WU + k <= worldSpeed
       /\ o.w = rand(WIDEST_DRAW, PIT_MIN_W * XU,
                     computeSafePitWidth([worldSpeed |-> BASE_SPEED * WU + k]))

(* C8: the player who taps when the near edge of a pit is within
   PIT_LEAD_TICKS ticks of travel never enters pit-fall, whatever the width
   of the pit and the speed at which it arrives. *)
C8_PitIsCrossed == ~pitFall

(* a pit of the largest width has been crossed: it lies behind the actor,
   who stands on the ground again, the run still on *)
C8_Witness ==
  /\ state = "RUNNING" /\ dino.onGround /\ ~pitFall
  /\ \E i \in Pits : Widest(obs[i]) /\ obs[i].x + obs[i].w < dino.x

----------------------------------------------------------------------------
(* Input handlers and the tick *)

(* the run's world: everything of the simulation but the run state, the
   actor, the intent flags and the jump timers *)
worldVars ==
  <<worldSpeed, score, obs, distSinceSpawn, nextSpawnDist, lastKind, lastFlyLevel,
    lastSpawnHardness, lastSpawnWasHard, patternQueue, patternCooldownDist,
    recentPatterns, guardAfterPit, guardAfterLowFlyer, pitFall>>

Handlers ==
  {"KeyH", "reset", "restart", "duckDown", "duckUp", "jumpDown", "jumpUp", "tap",
   "pointerUp"}

(* C11, as stated: the run state, the actor, score, speed and the obstacle
   and schedule state change only in a tick, never in an input handler. *)
C11_HandlersOnlyRecord ==
  [][ev' \in Handlers => UNCHANGED <<state, dino, worldVars>>]_vars

(* C11, amended: handlers run between ticks only. Jump press, tap outside
   GAMEOVER, duck release and the debug toggle only record the intent. Duck
   press also puts a grounded actor in the duck pose at once (and clears
   ducking in the air); jump release and pointer release also clamp vy to the
   cut velocity at once; the R key and a tap in GAMEOVER apply the reset or
   restart at once. No handler changes score, speed, obstacles or schedule
   except by that reset or restart. *)
C11_HandlerEffects ==
  [][ev' \in Handlers
       => /\ ~draining
          /\ ev' \in {"KeyH", "jumpDown", "tap", "duckUp"}
               => UNCHANGED <<state, dino, worldVars, coyote, jumpHold>>
          /\ ev' = "duckDown"
               => /\ UNCHANGED <<state, worldVars, jumpBuffer, coyote, jumpHold>>
                  /\ downDown'
                  /\ dino' = IF ~dino.onGround THEN [dino EXCEPT !.ducking = FALSE]
                             ELSE [dino EXCEPT !.ducking = TRUE, !.w = DUCK_W * XU,
                                               !.h = DUCK_H * YU,
                                               !.y = IF dino.ducking THEN dino.y
                                                     ELSE groundY - DUCK_H * YU]
          /\ ev' \in {"jumpUp", "pointerUp"}
               => /\ UNCHANGED <<state, worldVars, jumpBuffer, coyote, jumpHold>>
                  /\ ~jumpDown'
                  /\ dino' = [dino EXCEPT !.vy = Max(dino.vy, JUMP_CUT_VELOCITY * VU)]
          /\ ev' = "reset" => state' = "READY" /\ score' = 0 /\ obs' = <<>>
          /\ ev' = "restart" => state' = "RUNNING" /\ score' = 0 /\ obs' = <<>>]_vars

(* handlers that changed the actor between two ticks: a duck press that put
   the running actor in the duck pose *)
C11_Witness ==
  /\ ev = "duckDown" /\ state = "RUNNING" /\ dino.ducking
  /\ dino.h = DUCK_H * YU /\ dino.y = groundY - DUCK_H * YU

----------------------------------------------------------------------------
(* A run played by a player who may or may not tap when an obstacle or a pit
   comes within reach: obstacles are hit, pits are fallen into, flyers are
   met in the air. Math.random() is drawn as in SpecPits. *)

(* a flyer is within reach of a grounded actor *)
flyerAhead(s) ==
  /\ s.state = "RUNNING" /\ s.dino.onGround /\ s.jumpBuffer = 0
  /\ \E i \in 1..Len(s.obs) :
       /\ s.obs[i].kind = "FLYER"
       /\ ahead(s, s.obs[i]) > 0
       /\ ahead(s, s.obs[i]) <= travel(s) * OBSTACLE_LEAD_TICKS

PlayTap == TapStep(wantJump(Cur) \/ flyerAhead(Cur))

PlayFrame == FrameStep(FrameDeltas, MaxPitTicks)

NextRuns == PlayTap \/ PlayFrame \/ PilotTick

SpecRuns == Init /\ [][NextRuns]_vars

(* the inset hit-rectangles of the actor and of obstacle i overlap *)
Overlaps(i) == aabb(dinoHitbox(dino), obHitbox(obs[i]))

(* C12: after a tick that leaves the run RUNNING no non-pit obstacle of the
   store overlaps the actor (an overlap at the end of a tick has ended the
   run in that tick), and a tick that ended the run by collision left a
   non-pit obstacle overlapping the actor: a pit alone never does. *)
C12_OverlapEndsRun ==
  /\ ev = "tick" /\ state = "RUNNING"
       => \A i \in 1..Len(obs) : obs[i].kind # "PIT" => ~Overlaps(i)
  /\ ev = "tick" /\ cause = "collision"
       => state = "GAMEOVER" /\ \E i \in 1..Len(obs) : obs[i].kind # "PIT" /\ Overlaps(i)

(* a tick ended the run on a flyer met in the air *)
C12_Witness ==
  /\ ev = "tick" /\ state = "GAMEOVER" /\ cause = "collision"
  /\ \E i \in 1..Len(obs) : obs[i].kind = "FLYER" /\ Overlaps(i)

----------------------------------------------------------------------------
(* The overlap test as a function of two rectangles: aabb (profile.ts
   663-665) applied by the collision scan of update (1659-1666) to the
   hit-rectangle of an airborne actor and that of one obstacle placed beside
   and above or below it, at gaps drawn around the touching position. A
   negative gap is a penetration, 0 is touching, a positive gap is apart. *)

MaxAabbGap == 3
AabbGaps == (-MaxAabbGap)..MaxAabbGap

AirborneDino == [StandingDino EXCEPT !.y = groundY - 2 * STAND_H * YU, !.onGround = FALSE]

(* the obstacle whose hit-rectangle lies at gap gx beside (right or left of)
   the actor's and at gap gy below or above it *)
Beside(right, below, gx, gy) ==
  LET a == dinoHitbox(AirborneDino)
      w == STAND_W * XU
      h == STAND_H * YU
      bx == IF right THEN a.x + a.w + gx ELSE a.x - gx - (w - 2 * HIT_PAD * XU)
      by == IF below THEN a.y + a.h + gy ELSE a.y - gy - (h - 2 * HIT_PAD * YU)
  IN  [kind |-> "CACTUS", variant |-> "CACTUS_SINGLE", seed |-> 0, hardness |-> 550,
       flightLevel |-> -1, x |-> bx - HIT_PAD * XU, y |-> by - HIT_PAD * YU,
       w |-> w, h |-> h]

InitAabb ==
  \E right \in BOOLEAN, below \in BOOLEAN, gx \in AabbGaps, gy \in AabbGaps :
    /\ Start([startRunFresh(resetToReady(Declared))
                EXCEPT !.dino = AirborneDino, !.obs = <<Beside(right, below, gx, gy)>>])
    /\ ev = "init"

(* the scan at the end of update: gameOver on the first non-pit hit *)
ScanStep ==
  /\ ev = "init"
  /\ Commit(IF collides(dino, obs) THEN [gameOver(Cur) EXCEPT !.cause = "collision"]
            ELSE Cur)
  /\ ev' = "scan"
  /\ UNCHANGED <<acc, draining, inputs, pressGrounded, released>>

SpecAabb == InitAabb /\ [][ScanStep]_vars

(* the interiors of rectangles a and b intersect *)
InteriorsMeet(a, b) ==
  a.x < b.x + b.w /\ b.x < a.x + a.w /\ a.y < b.y + b.h /\ b.y < a.y + a.h

(* C13, as stated: the scan reports an overlap, and ends the run, only when
   the interiors of the two hit-rectangles intersect; rectangles that touch
   along an edge or at a corner are not reported. *)
C13_TouchingIsNoOverlap ==
  ev = "scan" /\ state = "GAMEOVER"
    => InteriorsMeet(dinoHitbox(dino), obHitbox(obs[1]))

----------------------------------------------------------------------------
(* Flyer spawns after a pit: spawnStep and spawnSingleFair (profile.ts
   1148-1190) applied to the state that a pit spawn leaves, at points of a
   run in the stages MID and LATE where low flyers are allowed, with some or
   all of the guard distance consumed. *)

(* the speed and score of a run after n ticks of RUNNING *)
AfterTicks(s, n) ==
  [s EXCEPT !.worldSpeed = BASE_SPEED * WU + n,
            !.score = BASE_SPEED * WU * n + (n * (n + 1)) \div 2]

MaxGuardTicks == 8000
GuardTickStep == 1900
GuardTicks == {MaxGuardTicks - k * GuardTickStep : k \in 0..2}
GuardLeft == {0, 1, (SAFE_AFTER_PIT_DIST * XU) \div 2, SAFE_AFTER_PIT_DIST * XU}

InitFlyers ==
  \E n \in GuardTicks, left \in GuardLeft, last \in 0..2 :
    \E t \in spawnPit(AfterTicks(startRunFresh(resetToReady(Declared)), n), -1, RandomLow) :
      /\ Start([t EXCEPT !.guardAfterPit = left, !.lastFlyLevel = last])
      /\ ev = "init"

(* spawnStep of a pattern step that asks for a flyer of a given level *)
PatternFlyerStep ==
  /\ ev = "init"
  /\ \E level \in 0..2 :
       /\ \E t \in spawnStep(Cur, Step("FLYER", 0, -1, level), RandomWide) : Commit(t)
       /\ ev' = IF level = 0 THEN "lowFlyerStep" ELSE "flyerStep"
  /\ UNCHANGED <<acc, draining, inputs, pressGrounded, released>>

SingleFairStep ==
  /\ ev = "init"
  /\ \E t \in spawnSingleFair(Cur, RandomWide) : Commit(t)
  /\ ev' = "spawnSingleFair"
  /\ UNCHANGED <<acc, draining, inputs, pressGrounded, released>>

NextFlyers == PatternFlyerStep \/ SingleFairStep

SpecFlyers == InitFlyers /\ [][NextFlyers]_vars

LowFlyers == {i \in 1..Len(obs) : obs[i].kind = "FLYER" /\ obs[i].flightLevel = 0}

(* C14: a spawn made while guardAfterPit > 0, by a pattern step with an
   explicit level or by a single fair spawn, puts no level-0 flyer in the
   store and starts no low-flyer guard. *)
C14_NoLowFlyerAfterPit ==
  ev # "init" /\ guardAfterPit > 0 => LowFlyers = {} /\ guardAfterLowFlyer = 0

(* a pattern step asked for a level-0 flyer while the guard was running and
   a level-1 flyer was spawned instead *)
C14_Witness ==
  /\ ev = "lowFlyerStep" /\ guardAfterPit > 0 /\ Len(obs) = 2
  /\ obs[2].kind = "FLYER" /\ obs[2].flightLevel = 1 /\ lastFlyLevel = 1

----------------------------------------------------------------------------
(* Pattern starts: startPattern (profile.ts 1140-1146) applied once to a
   run in each stage, past the pattern score gate, for every history
   recentPatterns of at most three pattern ids the run can have started. *)

MinPatternTicks == 2000
PatternTicks == GuardTicks \cup {MinPatternTicks}
RandomPatterns == {0, 300, 600, RD - 1}

(* the ids a run that has reached s can have started: those of weight > 0
   in the stage of s or in an earlier stage *)
PatternIds(s) ==
  {Patterns[i].id : i \in {j \in 1..Len(Patterns) :
                             stage(s) # "EARLY" \/ Patterns[j].wEarly > 0}}
Histories(s) == UNION {[1..n -> PatternIds(s)] : n \in 0..3}

InitPatterns ==
  \E n \in PatternTicks :
    \E recent \in Histories(AfterTicks(startRunFresh(resetToReady(Declared)), n)) :
      /\ Start([AfterTicks(startRunFresh(resetToReady(Declared)), n)
                  EXCEPT !.recentPatterns = recent])
      /\ ev = "init"

(* ev tells whether the pick was accepted within the retries or was the draw
   taken after PATTERN_RETRIES draws that all landed on recent ids *)
StartPatternStep ==
  /\ ev = "init"
  /\ \E p \in pickPatternFrom(Cur, RandomPatterns, RandomLow), u \in RandomLow :
       /\ Commit(startPicked(Cur, p, u))
       /\ ev' = IF p.exhausted THEN "patternExhausted" ELSE "pattern"
  /\ UNCHANGED <<acc, draining, inputs, pressGrounded, released>>

SpecPatterns == InitPatterns /\ [][StartPatternStep]_vars

Recent == {recentPatterns[i] : i \in 1..Len(recentPatterns)}

(* C15: a pattern start records the started id at the head of the last
   three; an id picked within the retries is none of the three ids started
   before it, and an id that is one of them is started only by the draw that
   follows PATTERN_RETRIES draws on recent ids. *)
C15_RepeatOnlyWhenExhausted ==
  [][ev' \in {"pattern", "patternExhausted"}
       => /\ recentPatterns' # <<>>
          /\ Tail(recentPatterns')
               = SubSeq(recentPatterns, 1, Min(2, Len(recentPatterns)))
          /\ ~patternQueue'.null
          /\ ev' = "pattern" => Head(recentPatterns') \notin Recent
          /\ Head(recentPatterns') \in Recent => ev' = "patternExhausted"]_vars

(* a repeat: after the retries were exhausted the pattern started is one of
   the two started before it *)
C15_Witness ==
  /\ ev = "patternExhausted" /\ Len(recentPatterns) = 3
  /\ recentPatterns[1] \in {recentPatterns[2], recentPatterns[3]}
  /\ recentPatterns[2] # recentPatterns[3]

----------------------------------------------------------------------------
(* Best score *)

(* C16: a step into GAMEOVER makes best the larger of the previous best and
   floor(score) and stores the new best exactly when floor(score) exceeds the
   previous best; in GAMEOVER best >= floor(score); no step decreases best,
   and the stored value changes in no other step. *)
C16_BestOnGameOver ==
  [][/\ state # "GAMEOVER" /\ state' = "GAMEOVER"
          => /\ best' = Max(best, floorScore(score'))
             /\ floorScore(score') > best => bestStored' = floorScore(score')
             /\ floorScore(score') <= best => bestStored' = bestStored
     /\ state' = "GAMEOVER" => best' >= floorScore(score')
     /\ best' >= best
     /\ bestStored' # bestStored
          => state # "GAMEOVER" /\ state' = "GAMEOVER" /\ floorScore(score') > best
     /\ bestStored' = best']_vars

(* a run that ended below the best score of the session: nothing new stored *)
C16_Witness ==
  /\ state = "GAMEOVER" /\ ev = "tick" /\ cause # "none"
  /\ floorScore(score) < best /\ bestStored = best

----------------------------------------------------------------------------
(* The frame clock: frames that arrive after wall-clock gaps of different
   lengths, shorter than a tick, between ticks, not a whole number of ticks,
   and longer than the clamp of 0.05 s. One tap starts the run, which then
   goes on to its end without further input. *)

MaxFrameDelta == 45
ClockDeltas == {3, 7, 12, MAX_FRAME_DT, MaxFrameDelta}

ClockFrame == FrameStep(ClockDeltas, MaxSpeedTicks)

StartTap == TapStep(state = "READY" /\ jumpBuffer = 0)

NextClock == ClockFrame \/ StartTap \/ Tick

SpecClock == Init /\ [][NextClock]_vars

(* C17: between frames 0 <= acc < FIXED_DT, and inside the drain loop
   acc >= FIXED_DT; a frame adds its clamped delta to the leftover of the
   frame before it; update is called only inside the loop, each call consumes
   exactly FIXED_DT and advances the running world by FIXED_DT
   (worldSpeed + 8 * FIXED_DT); the loop is left only when less than FIXED_DT
   remains. So the calls of a frame number the whole FIXED_DT units of
   leftover + delta, and the remainder is carried. *)
C17_AccumulatorDrain ==
  [][/\ ~draining' => 0 <= acc' /\ acc' < FIXED_DT
     /\ draining' => acc' >= FIXED_DT
     /\ ev' = "frame"
          => /\ ~draining
             /\ \E d \in ClockDeltas : acc' = acc + Min(MAX_FRAME_DT, d)
     /\ ev' = "tick"
          => /\ draining /\ acc' = acc - FIXED_DT
             /\ state = "RUNNING" => worldSpeed' = worldSpeed + 1
     /\ ev' \notin {"frame", "tick"} => ~draining /\ acc' = acc]_vars

(* a frame of the run has ended with a remainder to carry *)
C17_Witness ==
  ev = "tick" /\ ~draining /\ acc > 0 /\ state = "RUNNING" /\ score > 0

(* C18: the accumulator never holds more than the clamped delta plus a
   leftover of less than one tick, so a frame runs at most
   (MAX_FRAME_DT + FIXED_DT - 1) \div FIXED_DT = 6 ticks, and it stays below
   MAX_ACCUM: the clamp to MAX_ACCUM never applies. *)
C18_CatchUpBounded ==
  /\ acc <= MAX_FRAME_DT + FIXED_DT - 1
  /\ (MAX_FRAME_DT + FIXED_DT - 1) \div FIXED_DT = 6
  /\ acc < MAX_ACCUM

(* the fullest accumulator: a gap longer than the clamp after a frame that
   left all but a tick's worth *)
C18_Witness ==
  ev = "frame" /\ acc = MAX_FRAME_DT + FIXED_DT - 1 /\ state = "RUNNING"

----------------------------------------------------------------------------
(* Determinism of the tick *)

(* the actor after update(): y, vy, onGround, ducking, w, h (and x) *)
ActorAfter(t) == t.dino

(* C19: in every state of a run, update() with given values of the random
   draws has exactly one outcome, as has every input handler, so two runs
   with the same ticks, intents and draws pass through the same states; and
   the actor after a tick does not depend on the draws of that tick at all:
   they reach the actor only through the obstacles they spawned in earlier
   ticks. *)
C19_TickIsDeterministic ==
  /\ \A u \in RandomPits : Cardinality(update(Cur, {u})) = 1
  /\ Cardinality({ActorAfter(t) : t \in update(Cur, RandomPits)}) = 1

(* the run is about to make a tick whose spawn depends on the draws: the
   outcomes differ in the obstacle store and agree on the actor *)
C19_Witness ==
  /\ draining /\ state = "RUNNING" /\ ~dino.onGround
  /\ Cardinality(update(Cur, RandomPits)) > 1
  /\ \E t \in update(Cur, RandomPits) :
       t.obs # <<>> /\ t.obs[Len(t.obs)].kind = "PIT" /\ ActorAfter(t) # dino

----------------------------------------------------------------------------
(* Ground obstacle dimensions: spawnGroundObstacle (profile.ts 846-867)
   applied once at points of a run in each stage, two of them late enough
   for the speed bonus of the width cap and difficulty01 to have reached
   their maximum. *)

MaxDimTicks == 14000
DimTickStep == 500
DimTicks == PatternTicks \cup {MaxDimTicks, MaxDimTicks - DimTickStep}

(* the state of a run after n ticks, with the guards as given *)
Context(n, afterPit, afterLowFlyer) ==
  [AfterTicks(startRunFresh(resetToReady(Declared)), n)
     EXCEPT !.guardAfterPit = afterPit, !.guardAfterLowFlyer = afterLowFlyer]

InitDims == \E n \in DimTicks : Start(Context(n, 0, 0)) /\ ev = "init"

SpawnGroundStep ==
  /\ ev = "init"
  /\ \E t \in spawnGroundObstacle(Cur, 45, RandomWide) : Commit(t)
  /\ ev' = "spawnGround"
  /\ UNCHANGED <<acc, draining, inputs, pressGrounded, released>>

SpecDims == InitDims /\ [][SpawnGroundStep]_vars

(* the states in which makeGroundDims may be called with the variant and
   seed of the obstacle just made *)
Contexts ==
  {Context(n, p, f) : n \in DimTicks, p \in {0, SAFE_AFTER_PIT_DIST * XU},
                      f \in {0, SAFE_AFTER_LOW_FLYER_DIST * XU}}

DimsIn(c) == makeGroundDims(c, obs[1].variant, obs[1].seed)
DimsMade == [w |-> obs[1].w, h |-> obs[1].h]

(* the speed from which the width cap's bonus (70 / 0.08 = 875 above 260)
   and difficulty01 (700 above 260) no longer grow in LATE *)
Saturated(s) ==
  stage(s) = "LATE" /\ s.worldSpeed >= BASE_SPEED * WU + (70 * WU * 100) \div 8

(* c and s give makeGroundDims the same stage, the same active guards and
   the same speed, or speeds past saturation *)
SameCaps(c, s) ==
  /\ stage(c) = stage(s)
  /\ (c.guardAfterPit > 0) = (s.guardAfterPit > 0)
  /\ (c.guardAfterLowFlyer > 0) = (s.guardAfterLowFlyer > 0)
  /\ c.worldSpeed = s.worldSpeed \/ (Saturated(c) /\ Saturated(s))

(* C20, as stated: makeGroundDims returns the same width and height for the
   same variant and seed, whatever the score, stage, world speed and guards
   at the time of the call. *)
C20_DimsBySeedOnly ==
  ev = "spawnGround" => \A c \in Contexts : DimsIn(c) = DimsMade

(* C20, amended: makeGroundDims returns the same width and height for the
   same variant and seed when the calls are made in the same stage, with the
   same guards active and at the same world speed (or, in LATE, at speeds of
   1135 or more). *)
C20_DimsBySeedAndCaps ==
  ev = "spawnGround" => \A c \in Contexts : SameCaps(c, Cur) => DimsIn(c) = DimsMade

(* an obstacle made late in a run: at another speed the same variant and
   seed give the same dimensions, in another stage they give others *)
C20_Witness ==
  /\ ev = "spawnGround"
  /\ \E c \in Contexts : c.worldSpeed # worldSpeed /\ SameCaps(c, Cur)
  /\ \E c \in Contexts : DimsIn(c) # DimsMade

----------------------------------------------------------------------------
(* A run that meets a pit with the keyboard in use. The run has lasted
   FallTicks ticks, which puts the score past PIT_SPAWN_SCORE_GATE, the
   store is empty and a spawn is due; the first tick spawns a pit (or, for
   another roll, a flyer or a ground obstacle), Math.random() drawn from
   RandomPits. Jump and duck keys and the R
   key are pressed and released, MaxFallInputs times in all, while the actor is
   in the air or in pit-fall, while a pit is within FALL_LEAD_TICKS ticks of
   travel or under the actor, and outside RUNNING. The run is followed to
   FallTicks + MaxFallTicks ticks, and on to its end once the actor is in
   pit-fall; a run that follows a reset or a restart is followed for
   MaxRestartTicks ticks. *)

FallTicks == 1000
MaxFallTicks == 330
MaxRestartTicks == 60
FALL_LEAD_TICKS == 18
MaxFallInputs == 2

SpawnDue(s) == [s EXCEPT !.distSinceSpawn = s.nextSpawnDist]

InitFall ==
  /\ Start(SpawnDue(AfterTicks(startRunFresh(resetToReady(Declared)), FallTicks)))
  /\ ev = "init"

pitNear(s) ==
  \E i \in 1..Len(s.obs) :
    /\ s.obs[i].kind = "PIT"
    /\ ahead(s, s.obs[i]) <= travel(s) * FALL_LEAD_TICKS
    /\ s.obs[i].x + s.obs[i].w > s.dino.x

keysInUse(s) ==
  /\ inputs < MaxFallInputs
  /\ s.state # "RUNNING" \/ s.pitFall \/ ~s.dino.onGround \/ pitNear(s)

FallKeyR == keysInUse(Cur) /\ KeyDownR
FallKeyDuck == keysInUse(Cur) /\ (KeyDownDuck \/ KeyUpDuck)
FallKeyJump == keysInUse(Cur) /\ (KeyDownJump \/ KeyUpJump)

FallFrame ==
  FrameStep(FrameDeltas,
            IF worldSpeed < BASE_SPEED * WU + FallTicks THEN MaxRestartTicks
            ELSE IF pitFall THEN 2 * (FallTicks + MaxFallTicks)
            ELSE FallTicks + MaxFallTicks)

NextFall == FallKeyR \/ FallKeyDuck \/ FallKeyJump \/ FallFrame \/ PilotTick

SpecFall == InitFall /\ [][NextFall]_vars

(* C21: pitFall is cleared only by a reset or a restart; while it is true
   the actor is not grounded, in a state reached by a tick or by a handler;
   a tick that starts with pitFall true ends with onGround false, also when
   the actor is at or below the ground line with no pit under it. *)
C21_PitFallIsIrreversible ==
  [][/\ pitFall /\ ~pitFall' => ev' \in {"reset", "restart"}
     /\ pitFall' => ~dino'.onGround
     /\ pitFall /\ ev' = "tick" => pitFall' /\ ~dino'.onGround]_vars

(* in pit-fall, below the ground line, the pit no longer under the actor:
   the tick did not ground the actor *)
C21_Witness ==
  /\ ev = "tick" /\ state = "RUNNING" /\ pitFall /\ ~dino.onGround
  /\ dino.y > groundY - dino.h /\ ~isOverPit(dino, obs)

(* C22: the actor's size is (32, 32) or (32, 24) in every state, and a
   grounded actor has y = groundY - h in every state, those at the end of a
   tick and those left by a handler. *)
C22_SizeAndFeet ==
  /\ <<dino.w, dino.h>> \in {<<STAND_W * XU, STAND_H * YU>>, <<DUCK_W * XU, DUCK_H * YU>>}
  /\ dino.onGround => dino.y = groundY - dino.h

(* a tick of the run has ended with the actor grounded in the duck pose, the
   feet on the ground line *)
C22_Witness ==
  /\ ev = "tick" /\ state = "RUNNING" /\ dino.onGround /\ dino.ducking
  /\ dino.h = DUCK_H * YU /\ dino.y = groundY - DUCK_H * YU /\ worldSpeed > BASE_SPEED * WU + FallTicks

(* C23: ducking implies onGround in every state: a duck press that finds the
   actor in the air leaves ducking false, and a tick that ends with the
   actor in the air, by a jump or over a pit, ends with ducking false. *)
C23_DuckOnlyGrounded ==
  /\ dino.ducking => dino.onGround
  /\ ev = "duckDown" /\ ~dino.onGround => ~dino.ducking /\ downDown

(* the actor walked into a pit in the duck pose, the duck key held: the
   tick took the ground away and cleared ducking *)
C23_Witness ==
  /\ ev = "tick" /\ state = "RUNNING" /\ downDown /\ ~dino.onGround /\ ~dino.ducking
  /\ dino.h = DUCK_H * YU /\ isOverPit(dino, obs)

----------------------------------------------------------------------------
(* Runs across the stage thresholds: a run that has lasted MidTicks or
   LateTicks ticks, shortly before its score reaches STAGE_MID_SCORE or
   STAGE_LATE_SCORE, is followed for MaxStageRun ticks; the player does not
   jump, so the run ends on the first ground obstacle. The R key resets the
   run or restarts it after the game is over, and a tap starts the next run,
   which is followed for MaxRestartTicks ticks. *)

MidTicks == 3700
LateTicks == 7480
MaxStageRun == 260

InitStage ==
  \E n \in {MidTicks, LateTicks} :
    /\ Start(AfterTicks(startRunFresh(resetToReady(Declared)), n))
    /\ ev = "init"

StageFrame ==
  FrameStep(FrameDeltas,
            IF worldSpeed < BASE_SPEED * WU + MidTicks THEN MaxRestartTicks
            ELSE IF worldSpeed < BASE_SPEED * WU + MidTicks + 2 * MaxStageRun
            THEN MidTicks + MaxStageRun ELSE LateTicks + MaxStageRun)

NextStage == StageFrame \/ PilotTick \/ KeyDownR \/ StartTap

SpecStage == InitStage /\ [][NextStage]_vars

StageRank(sc) == CASE stage([score |-> sc]) = "EARLY" -> 0
                   [] stage([score |-> sc]) = "MID" -> 1
                   [] OTHER -> 2

(* C24: a tick that starts and ends in RUNNING adds 8 * FIXED_DT to
   worldSpeed and FIXED_DT * worldSpeed / 20, at the new speed, to score,
   both more than nothing; worldSpeed >= 260 and score >= 0 in every state;
   the stage goes down only in a reset or restart. *)
C24_SpeedAndScoreGrow ==
  [][/\ ev' = "tick" /\ state = "RUNNING" /\ state' = "RUNNING"
          => /\ worldSpeed' = worldSpeed + (8 * FIXED_DT * WU) \div TU
             /\ score' = score + (FIXED_DT * worldSpeed' * SU) \div (20 * TU * WU)
             /\ worldSpeed' > worldSpeed /\ score' > score
     /\ worldSpeed' >= BASE_SPEED * WU /\ score' >= 0
     /\ StageRank(score') < StageRank(score) => ev' \in {"reset", "restart"}
     /\ ev' = "tick" => StageRank(score') >= StageRank(score)]_vars

(* the tick in which the run entered the stage LATE *)
C24_Witness ==
  /\ ev = "tick" /\ state = "RUNNING" /\ StageRank(score) = 2
  /\ StageRank(score - worldSpeed) = 1

----------------------------------------------------------------------------
(* Fair ticking: requestAnimationFrame keeps calling frame(), and the drain
   loop of a frame, which runs without interruption, comes to its end. *)
SpecFallFair == SpecFall /\ WF_vars(FallFrame) /\ []<>(~draining)

(* C25: under fair ticking a run in pit-fall leaves RUNNING: by the fatal
   fall, a collision or a reset. Every tick in pit-fall makes vy larger
   (gravity acts, nothing grounds the actor), except the tick of a jump by
   coyote time, which leaves coyote 0, so that no second jump follows; duck
   and the jump release make vy no smaller. *)
C25_PitFallEndsRun ==
  /\ (pitFall /\ state = "RUNNING") ~> (state # "RUNNING")
  /\ [][pitFall /\ pitFall' /\ state' = "RUNNING"
          => /\ ev' = "tick" => \/ dino'.vy > dino.vy
                                \/ coyote > 0 /\ coyote' = 0 /\ jumpBuffer > 0
             /\ ev' # "tick" => dino'.vy >= dino.vy /\ coyote' = coyote]_vars

(* the run ended by the fatal fall of an actor in pit-fall that had jumped
   after it last stood on the ground *)
C25_Witness ==
  /\ ev = "tick" /\ state = "GAMEOVER" /\ cause = "fall" /\ pitFall
  /\ coyote = 0 /\ dino.y > viewH + FALL_MARGIN * YU /\ inputs > 0

----------------------------------------------------------------------------
(* Window resizes during a run: resize() (profile.ts 416-454) is the handler
   of the window's resize event. It sets viewW to the width that fits the
   window (a multiple of SNAP between MIN_VIEW_W and MAX_VIEW_W), moves the
   actor to its place for that width and puts a grounded actor on the ground
   line. The run is played by the player of SpecPits for MaxResizeTicks
   ticks. *)

MAX_VIEW_W == 1280
SNAP == 16
MaxResizeTicks == 700

(* the widths resize() is called for: the least, the largest and half way *)
ViewWidths == {MIN_VIEW_W, ((MIN_VIEW_W + MAX_VIEW_W) \div (2 * SNAP)) * SNAP, MAX_VIEW_W}

(* W in px; baseX = clamp(round(W * 0.14), 86, 140) *)
resize(s, W) ==
  LET baseX == clamp((14 * W + 50) \div 100, 86, 140)
      groundTop == groundY - s.dino.h
  IN  [s EXCEPT !.viewW = W * XU,
                !.dino.x = clamp(baseX, 70, Max(70, W - 140)) * XU,
                !.dino.y = IF s.dino.onGround THEN groundTop ELSE Min(s.dino.y, groundTop),
                !.dino.vy = IF s.dino.onGround THEN 0 ELSE s.dino.vy]

OnResize ==
  /\ ~draining
  /\ \E W \in ViewWidths : Commit(resize(Cur, W))
  /\ ev' = "resize"
  /\ UNCHANGED <<acc, draining, inputs, pressGrounded, released>>

ResizeFrame == ~wantJump(Cur) /\ FrameStep(FrameDeltas, MaxResizeTicks)

NextResize == OnResize \/ PilotTap \/ ResizeFrame \/ Tick

SpecResize == Init /\ [][NextResize]_vars

(* C26, as stated: the obstacles of the store are in ascending order of x,
   and after the cull of a tick no obstacle of the store has its right edge
   left of the cull line. *)
C26_StoreAscending ==
  /\ \A i \in 1..(Len(obs) - 1) : obs[i].x < obs[i + 1].x
  /\ ev = "tick" => \A i \in 1..Len(obs) : obs[i].x + obs[i].w >= -(CULL_MARGIN * XU)

----------------------------------------------------------------------------
(* The spawn director at work: runs that have lasted MinPatternTicks,
   MidTicks or LateTicks ticks, with the score past PATTERN_SCORE_GATE, the
   store empty and a spawn due, played by the player of SpecPits for
   MaxDirectorTicks ticks, Math.random() drawn from RandomPits. *)

MaxDirectorTicks == 300

InitDirector ==
  \E n \in {MinPatternTicks, MidTicks, LateTicks} :
    /\ Start(SpawnDue(AfterTicks(startRunFresh(resetToReady(Declared)), n)))
    /\ ev = "init"

DirectorFrame ==
  /\ ~wantJump(Cur)
  /\ FrameStep(FrameDeltas,
               IF worldSpeed < BASE_SPEED * WU + MinPatternTicks + 2 * MaxDirectorTicks
               THEN MinPatternTicks + MaxDirectorTicks
               ELSE IF worldSpeed < BASE_SPEED * WU + MidTicks + 2 * MaxDirectorTicks
               THEN MidTicks + MaxDirectorTicks
               ELSE LateTicks + MaxDirectorTicks)

NextDirector == PilotTap \/ DirectorFrame \/ PilotTick

SpecDirector == InitDirector /\ [][NextDirector]_vars

(* the pattern queue holds steps to spawn *)
queued(q) == ~q.null /\ Len(q.steps) > 0

(* the values that the operators of the director read, at the end of the
   tick: speed, score and guards are not written after the spawn *)
Post ==
  [worldSpeed |-> worldSpeed', score |-> score', guardAfterPit |-> guardAfterPit',
   guardAfterLowFlyer |-> guardAfterLowFlyer', patternCooldownDist |-> 0]

(* a tick that called spawnManagerTick: only scheduleNextAfterSpawn leaves
   distSinceSpawn at 0 *)
SpawnOpportunity == ev' = "tick" /\ state = "RUNNING" /\ distSinceSpawn' = 0

(* a tick that started a pattern: only startPattern raises the cooldown *)
PatternStarted == patternCooldownDist' > patternCooldownDist

(* the cooldown at the time spawnManagerTick is called, after the count down
   of the tick *)
CooldownLeft == countDown(patternCooldownDist, travel(Post))

(* C27, as stated: the tick that spawns the last step of a pattern sets the
   pattern cooldown to a stage-scaled distance, scaledGap(540 | 430 | 320)
   at least. *)
C27_CooldownSetAtCompletion ==
  [][SpawnOpportunity /\ queued(patternQueue) /\ patternQueue'.null
       => patternCooldownDist' >= setPatternCooldown(Post, 0).patternCooldownDist]_vars

(* the least and the greatest cooldown that setPatternCooldown draws at the
   end of the tick *)
CooldownMin == scaledGap(Post, byStage(stage(Post), 540, 430, 320) * XU)
CooldownMax == CooldownMin + scaledGap(Post, 180 * XU)

(* C27, amended: the pattern cooldown is set in the tick that starts a
   pattern, to a stage-scaled distance, scaledGap(540 | 430 | 320) plus at
   most scaledGap(180); every other tick of a run, the tick that spawns the
   last step of the pattern included, only counts it down by the distance
   travelled, and no other event raises it. So no new pattern starts until
   that distance has been travelled after the start of the pattern. *)
C27_CooldownSetAtStart ==
  [][/\ PatternStarted
          => /\ SpawnOpportunity /\ queued(patternQueue')
             /\ patternCooldownDist' >= CooldownMin
             /\ patternCooldownDist' <= CooldownMax
     /\ ~PatternStarted /\ ev' = "tick" /\ state = "RUNNING" /\ state' = "RUNNING"
          => patternCooldownDist' = CooldownLeft
     /\ ~PatternStarted /\ ~(ev' = "tick" /\ state = "RUNNING")
          => patternCooldownDist' \in {patternCooldownDist, 0}]_vars

(* the third and last step of the first pattern of the run has been spawned
   and the cooldown, set at its start, is below the least value that
   setPatternCooldown draws *)
C27_Witness ==
  /\ ev = "tick" /\ state = "RUNNING" /\ distSinceSpawn = 0
  /\ patternQueue.null /\ recentPatterns = <<"P5_TRIPLE_STUTTER">> /\ Len(obs) = 3
  /\ patternCooldownDist > 0
  /\ patternCooldownDist < scaledGap(Cur, byStage(stage(Cur), 540, 430, 320) * XU)

(* C28: a pattern starts only in a tick of RUNNING that calls
   spawnManagerTick with score >= 260, no pattern queue, the cooldown counted
   down to 0 and the last spawned obstacle not a pit; the tick spawns the
   first step of the pattern. *)
C28_PatternStartGate ==
  [][PatternStarted
       => /\ SpawnOpportunity
          /\ score' >= PATTERN_SCORE_GATE * SU
          /\ patternQueue.null
          /\ CooldownLeft = 0
          /\ lastKind # "PIT"
          /\ Len(recentPatterns') >= 1 /\ Len(obs') >= 1]_vars

(* a pattern has started after the cooldown of the pattern before it ran
   out *)
C28_Witness ==
  /\ ev = "tick" /\ state = "RUNNING" /\ distSinceSpawn = 0
  /\ Len(recentPatterns) = 2 /\ queued(patternQueue) /\ patternCooldownDist > 0

(* C29, as stated: a spawn opportunity with a pattern queued sets the next
   threshold to the gapBase of the step it popped, times speedFactor. *)
C29_GapOfPoppedStep ==
  [][SpawnOpportunity /\ queued(patternQueue)
       => nextSpawnDist' = scaledGap(Post, Head(patternQueue.steps).gapBase)]_vars

(* C29, amended: a spawn opportunity with a pattern queued pops the head of
   the queue and spawns it; if steps remain, the next threshold is the
   gapBase of the step now at the head of the queue, the next to be spawned,
   times speedFactor; if none remain, the queue is cleared and the threshold
   is computeNextSpawnDist of the kind and hardness just spawned. *)
C29_GapOfNextStep ==
  [][SpawnOpportunity /\ queued(patternQueue)
       => /\ patternQueue' = IF Tail(patternQueue.steps) = <<>> THEN NullQueue
                             ELSE [null |-> FALSE, steps |-> Tail(patternQueue.steps)]
          /\ obs' # <<>>
          /\ obs'[Len(obs')].kind = Head(patternQueue.steps).kind
          /\ obs'[Len(obs')].flightLevel \in {Head(patternQueue.steps).level, 1}
          /\ queued(patternQueue')
               => nextSpawnDist' = scaledGap(Post, Head(patternQueue'.steps).gapBase)
          /\ ~queued(patternQueue')
               => nextSpawnDist' \in {computeNextSpawnDist(Post, lastKind',
                                                          lastSpawnHardness', u)
                                        : u \in RandomPits}]_vars

(* the second step of a pattern of three has been spawned; the threshold is
   the gap of the third, which differs from that of the second *)
C29_Witness ==
  /\ ev = "tick" /\ state = "RUNNING" /\ distSinceSpawn = 0
  /\ queued(patternQueue) /\ Len(patternQueue.steps) = 1 /\ Len(obs) >= 2
  /\ recentPatterns = <<"P5_TRIPLE_STUTTER">>
  /\ nextSpawnDist = scaledGap(Cur, patternQueue.steps[1].gapBase)

(* the tick put a level-0 flyer in the store *)
LowFlyerSpawned ==
  /\ SpawnOpportunity /\ obs' # <<>>
  /\ obs'[Len(obs')].kind = "FLYER" /\ obs'[Len(obs')].flightLevel = 0

(* C30, as stated: a level-0 flyer is spawned only in stage MID with
   score > 650 or in stage LATE, by a pattern step as by a random pick. *)
C30_LowFlyerByScore ==
  [][LowFlyerSpawned
       => \/ stage(Post) = "MID" /\ score' > LOW_FLYER_MID_SCORE * SU
          \/ stage(Post) = "LATE"]_vars

(* C30, amended: a level-0 flyer is never spawned in stage EARLY nor while
   guardAfterPit > 0. One whose level is picked at random (spawnFlyer()
   without a level) is spawned only in MID with score > 650 or in LATE; one
   that is a step of a pattern is spawned in MID at any score, from 600 on,
   and in LATE. *)
C30_LowFlyerByStage ==
  [][LowFlyerSpawned
       => /\ stage(Post) # "EARLY"
          /\ countDown(guardAfterPit, travel(Post)) = 0
          /\ ~(queued(patternQueue) \/ PatternStarted)
               => \/ stage(Post) = "MID" /\ score' > LOW_FLYER_MID_SCORE * SU
                  \/ stage(Post) = "LATE"]_vars

(* a pattern put a level-0 flyer in the store in MID before the score
   passed 650 *)
C30_Witness ==
  /\ ev = "tick" /\ distSinceSpawn = 0 /\ stage(Cur) = "MID"
  /\ score <= LOW_FLYER_MID_SCORE * SU
  /\ obs # <<>> /\ obs[Len(obs)].kind = "FLYER" /\ obs[Len(obs)].flightLevel = 0

(* the tick appended an obstacle of kind k to the store *)
SpawnedKind(k) ==
  SpawnOpportunity /\ obs' # <<>> /\ obs'[Len(obs')].kind = k /\ lastKind' = k

(* C31: a pit is spawned only in a tick with score >= 120, the obstacle
   spawned before it not a pit and guardAfterPit counted down to 0; the pit
   sets the guard to SAFE_AFTER_PIT_DIST, and no two neighbours in the store
   are both pits. *)
C31_PitGate ==
  [][/\ SpawnedKind("PIT")
          => /\ score' >= PIT_SPAWN_SCORE_GATE * SU
             /\ lastKind # "PIT"
             /\ countDown(guardAfterPit, travel(Post)) = 0
             /\ guardAfterPit' = SAFE_AFTER_PIT_DIST * XU
     /\ \A i \in 1..(Len(obs') - 1) : ~(obs'[i].kind = "PIT" /\ obs'[i + 1].kind = "PIT")]_vars

(* a pit has just been spawned behind an obstacle that is not a pit *)
C31_Witness ==
  /\ ev = "tick" /\ state = "RUNNING" /\ distSinceSpawn = 0
  /\ Len(obs) >= 2 /\ obs[Len(obs)].kind = "PIT" /\ obs[Len(obs) - 1].kind # "PIT"
  /\ lastKind = "PIT" /\ guardAfterPit = SAFE_AFTER_PIT_DIST * XU
  /\ score >= PIT_SPAWN_SCORE_GATE * SU

(* the store after the tick is the store before it, scrolled by the distance
   travelled and trimmed of k obstacles at the front, with n obstacles (0 or
   1) appended at the spawn line and scrolled once *)
StoreStep(n) ==
  \E k \in 0..Len(obs) :
    /\ Len(obs') = Len(obs) - k + n
    /\ \A i \in 1..(Len(obs) - k) :
         obs'[i] = [obs[i + k] EXCEPT !.x = @ - travel(Post)]
    /\ n = 1 => obs'[Len(obs')].x = viewW + SPAWN_MARGIN * XU - travel(Post)

(* a tick of a run that did not end in the fatal fall, which returns before
   the spawn schedule is read *)
ScheduleTick ==
  /\ ev' = "tick" /\ state = "RUNNING"
  /\ ~(state' = "GAMEOVER" /\ cause' = "fall")

(* the distance since the last spawn has reached the threshold in this tick *)
SpawnDueNow == distSinceSpawn + travel(Post) >= nextSpawnDist

(* C32: a tick whose distance since the last spawn reaches nextSpawnDist
   appends exactly one obstacle to the store, at the spawn line, sets
   distSinceSpawn to 0 and nextSpawnDist to a positive distance; every other
   tick appends none and leaves the threshold alone. So a tick takes at most
   one spawn opportunity. *)
C32_OneSpawnPerOpportunity ==
  [][ScheduleTick
       => /\ SpawnDueNow
               => distSinceSpawn' = 0 /\ nextSpawnDist' > 0 /\ StoreStep(1)
          /\ ~SpawnDueNow
               => /\ distSinceSpawn' = distSinceSpawn + travel(Post)
                  /\ nextSpawnDist' = nextSpawnDist
                  /\ StoreStep(0)]_vars

(* an obstacle has just been appended at the spawn line behind another one
   and a positive threshold is set *)
C32_Witness ==
  /\ ev = "tick" /\ state = "RUNNING" /\ distSinceSpawn = 0 /\ nextSpawnDist > 0
  /\ Len(obs) >= 2
  /\ obs[Len(obs)].x = viewW + SPAWN_MARGIN * XU - travel(Cur)
  /\ obs[Len(obs) - 1].x < obs[Len(obs)].x

(* the queue after its head has been popped *)
Popped(q) ==
  IF Tail(q.steps) = <<>> THEN NullQueue ELSE [null |-> FALSE, steps |-> Tail(q.steps)]

(* C33: the pattern queue is null or has steps to spawn. From the start of a
   pattern on, every spawn opportunity pops the head of the queue and spawns
   it, without a start of another pattern; between the opportunities the
   queue is not touched; only reset and restart drop steps that were not
   spawned, and the end of the run leaves them unspawned. *)
C33_QueueRunsToCompletion ==
  /\ [](patternQueue.null \/ Len(patternQueue.steps) > 0)
  /\ [](patternQueue.null => patternQueue = NullQueue)
  /\ [][queued(patternQueue)
          => \/ /\ SpawnOpportunity
                /\ patternQueue' = Popped(patternQueue)
                /\ recentPatterns' = recentPatterns /\ ~PatternStarted
                /\ obs'[Len(obs')].kind = Head(patternQueue.steps).kind
             \/ /\ ~SpawnOpportunity
                /\ patternQueue' = patternQueue /\ recentPatterns' = recentPatterns
                /\ Len(obs') <= Len(obs)
             \/ /\ ev' \in {"reset", "restart"}
                /\ patternQueue' = NullQueue]_vars

(* the two steps of P7 have been spawned in the declared order, the low
   flyer and then the cactus, and the queue is null again *)
C33_Witness ==
  /\ ev = "tick" /\ state = "RUNNING" /\ distSinceSpawn = 0
  /\ patternQueue = NullQueue /\ recentPatterns = <<"P7_DUCK_THEN_JUMP">>
  /\ Len(obs) >= 2
  /\ obs[Len(obs) - 1].kind = "FLYER" /\ obs[Len(obs) - 1].flightLevel = 0
  /\ obs[Len(obs)].kind = "CACTUS"

(* C34: the after-pit guard has run out at every spawn opportunity. While it
   is positive, the last spawned obstacle is the pit that set it, the guard
   and the distance since that spawn add up to SAFE_AFTER_PIT_DIST, and the
   threshold scheduled behind the pit is above SAFE_AFTER_PIT_DIST. *)
C34_GuardExpiredAtSpawn ==
  /\ [](guardAfterPit > 0
          => /\ lastKind = "PIT"
             /\ guardAfterPit + distSinceSpawn = SAFE_AFTER_PIT_DIST * XU
             /\ nextSpawnDist > SAFE_AFTER_PIT_DIST * XU)
  /\ [][SpawnOpportunity => countDown(guardAfterPit, travel(Post)) = 0]_vars
  /\ [][SpawnedKind("PIT") => nextSpawnDist' > SAFE_AFTER_PIT_DIST * XU]_vars

(* an obstacle has been spawned behind a pit, with the guard at 0 *)
C34_Witness ==
  /\ ev = "tick" /\ state = "RUNNING" /\ distSinceSpawn = 0 /\ guardAfterPit = 0
  /\ Len(obs) >= 2 /\ obs[Len(obs) - 1].kind = "PIT" /\ obs[Len(obs)].kind # "PIT"
  /\ obs[Len(obs)].x - obs[Len(obs) - 1].x > SAFE_AFTER_PIT_DIST * XU

(* the tick performed a jump: the vertical speed turned upward. The actor
   leaves the ground without a jump only over a pit, moving down. *)
JumpPerformed == ev' = "tick" /\ dino.vy >= 0 /\ dino'.vy < 0

(* C35, as stated: no jump is performed while pitFall is true; the actor
   locked into a pit-fall is not put back on the ground line. *)
C35_NoJumpInPitFall ==
  [][pitFall /\ ev' = "tick" /\ state = "RUNNING"
       => ~JumpPerformed /\ dino'.y > dino.y]_vars

(* the tick consumed the jump buffer: a buffer of FIXED_DT or less runs out
   before tryConsumeJump reads it, a longer one is zeroed only by
   performJump *)
BufferConsumed == ev' = "tick" /\ jumpBuffer > FIXED_DT /\ jumpBuffer' = 0

(* C36: a jump is performed only in a tick that consumes a pending jump
   buffer, with the actor grounded or coyote time left; it leaves the actor
   airborne with coyote = 0. While the actor is airborne with coyote = 0,
   coyote stays 0 and no jump is performed, so at most one jump lies between
   two ground contacts. *)
C36_OneJumpPerContact ==
  /\ [][BufferConsumed
          => /\ state = "READY" \/ dino.onGround \/ coyote > FIXED_DT
             /\ JumpPerformed
             /\ state' # "READY" /\ coyote' = 0 /\ ~dino'.onGround]_vars
  /\ [][JumpPerformed => BufferConsumed]_vars
  /\ [][ev' = "tick" /\ state = "RUNNING" /\ ~dino.onGround /\ coyote = 0
          => (~dino'.onGround => coyote' = 0) /\ ~BufferConsumed]_vars

(* a press made in the air after a jump has been pending for two ticks or
   more and has not been performed *)
C36_Witness ==
  /\ ev = "tick" /\ state = "RUNNING" /\ ~dino.onGround /\ coyote = 0 /\ ~pitFall
  /\ jumpBuffer > 0 /\ jumpBuffer < JUMP_BUFFER_TIME - FIXED_DT

(* lower edge of the hit-rectangle of a flyer, upper edge of that of the
   actor *)
HitBottom(o) == obHitbox(o).y + obHitbox(o).h
HitTop(d) == dinoHitbox(d).y

(* the flyer made by spawnFlyer for a level, and the grounded actor of a
   height *)
FlyerOf(level) ==
  [kind |-> "FLYER", x |-> 0, y |-> flyerBottom(level) - FLYER_H * YU,
   w |-> FLYER_W * XU, h |-> FLYER_H * YU]
GroundedOf(h) == [x |-> 0, y |-> groundY - h, w |-> STAND_W * XU, h |-> h]

(* C37: the hit-rectangle of a flyer of level 0, 1 or 2 ends above the
   hit-rectangle of a grounded actor, standing or ducking, and in every
   state a grounded actor overlaps no flyer of the store; a run that a flyer
   ended has the actor in the air. *)
C37_GroundedClearsFlyers ==
  /\ \A level \in 0..2 : \A h \in {STAND_H * YU, DUCK_H * YU} :
       HitBottom(FlyerOf(level)) < HitTop(GroundedOf(h))
  /\ dino.onGround
       => \A i \in 1..Len(obs) :
            obs[i].kind = "FLYER"
              => /\ HitBottom(obs[i]) < HitTop(dino)
                 /\ ~aabb(dinoHitbox(dino), obHitbox(obs[i]))

(* a grounded actor is under a flyer of level 0: the two hit-rectangles
   share a span of x *)
C37_Witness ==
  /\ ev = "tick" /\ state = "RUNNING" /\ dino.onGround
  /\ \E i \in 1..Len(obs) :
       /\ obs[i].kind = "FLYER" /\ obs[i].flightLevel = 0
       /\ obHitbox(obs[i]).x <= dinoHitbox(dino).x + dinoHitbox(dino).w
       /\ obHitbox(obs[i]).x + obHitbox(obs[i]).w >= dinoHitbox(dino).x

(* C38, as stated: the ducking flag agrees with the size of the actor:
   ducking exactly when (w, h) = (DUCK_W, DUCK_H), not ducking exactly when
   (w, h) = (STAND_W, STAND_H). *)
C38_DuckingAgreesWithSize ==
  /\ dino.ducking <=> <<dino.w, dino.h>> = <<DUCK_W * XU, DUCK_H * YU>>
  /\ ~dino.ducking <=> <<dino.w, dino.h>> = <<STAND_W * XU, STAND_H * YU>>

----------------------------------------------------------------------------
(* The router: main.ts 18-79. route() runs once at load and at every
   hashchange; it renders the page of the path and hands the cleanup that
   the render returned to setCleanup. The game variables of this module are
   those of one startGame closure; the router specification does not run
   it. *)

MaxRoutes == 5

(* paths that take the four branches of route() *)
Paths == {"/", "/play", "/profile", "/nowhere"}

(* what the render of a path may return: renderPlay returns the cleanup of
   startGame, renderProfile returns nothing, the 404 branch passes
   undefined; renderHome is typed Cleanup, void or a function. TRUE stands
   for a function. *)
Returns(path) ==
  CASE path = "/" -> {TRUE, FALSE}
    [] path = "/play" -> {TRUE}
    [] OTHER -> {FALSE}

(* setCleanup without the try: the exception of the old cleanup leaves
   route() before cleanup = next *)
setCleanupUncaught(r, next) ==
  IF r.cleanup # 0
  THEN [cleanup |-> IF r.pages[r.cleanup].throws THEN r.cleanup ELSE next,
        pages |-> [r.pages EXCEPT ![r.cleanup].calls = @ + 1]]
  ELSE [r EXCEPT !.cleanup = next]

setCleanup(r, next) ==
  IF r.cleanup # 0
  THEN [cleanup |-> next,
        pages |-> [r.pages EXCEPT
                     ![r.cleanup].calls = @ + 1,
                     ![r.cleanup].caught =
                        IF r.pages[r.cleanup].throws THEN @ + 1 ELSE @]]
  ELSE [r EXCEPT !.cleanup = next]

route ==
  /\ Len(pages) < MaxRoutes
  /\ \E path \in Paths : \E fn \in Returns(path) :
       \E throws \in (IF fn THEN {TRUE, FALSE} ELSE {FALSE}) :
         LET rendered == Append(pages, Rendered(path, fn, throws))
             next == IF fn THEN Len(rendered) ELSE 0
             r == setCleanup([cleanup |-> cleanup, pages |-> rendered], next)
         IN  cleanup' = r.cleanup /\ pages' = r.pages
  /\ ev' = "route"
  /\ UNCHANGED <<simVars, acc, draining, cause, inputs, pressGrounded, released>>

(* Init is the app loaded at #/play: the call of route() at load (79) has
   rendered the play page and registered the cleanup of its game *)
SpecRouter == Init /\ [][route]_vars

(* C39: the cleanup that a render returned is called exactly once, by the
   next call of route(), and not again: it has no call while it is the
   registered one and one call ever after. An exception of a cleanup is
   caught, once, and the cleanup of the page rendered last is the registered
   one all the same. A render that returned no function has nothing
   called. *)
C39_CleanupOnce ==
  /\ cleanup = IF pages # <<>> /\ pages[Len(pages)].fn THEN Len(pages) ELSE 0
  /\ \A i \in 1..Len(pages) :
       /\ pages[i].calls = IF pages[i].fn /\ i < Len(pages) THEN 1 ELSE 0
       /\ pages[i].caught = IF pages[i].throws THEN pages[i].calls ELSE 0

(* the cleanup of the second page threw when the third page was routed; the
   cleanup of the third was registered and called when the fourth was, and
   that of the fourth is registered *)
C39_Witness ==
  /\ ev = "route" /\ Len(pages) = 4 /\ pages[1].calls = 1
  /\ pages[2].fn /\ pages[2].throws /\ pages[2].calls = 1 /\ pages[2].caught = 1
  /\ pages[3].fn /\ pages[3].calls = 1
  /\ pages[4].fn /\ cleanup = 4

====
